---- MODULE Spec2Model ----
(***************************************************************************)
(* Plugin binding lifecycle manager (RepoDistributorManager) and worker    *)
(* liveness handlers of pulp, as a state machine.                          *)
(*                                                                         *)
(* Python values are encoded as follows.  A str used as an identifier is a *)
(* sequence of one-character strings, so that the identifier regex can be  *)
(* evaluated character by character.  A dict is a function whose domain is *)
(* its key set.  None is written None where a plain value is expected,     *)
(* NoneObj where a dict or a document is expected and NoId where an        *)
(* identifier is expected; the three never meet in one comparison.         *)
(***************************************************************************)
EXTENDS Integers, Sequences, FiniteSets, TLC

VARIABLES
    distributors,   \* the RepoDistributor collection: a set of documents
    pc,             \* per task: the place the running manager call has reached
    call,           \* per task: the arguments of the running (or last) call
    local,          \* per task: the local variables of the running call
    log,            \* per task: collaborator and plugin calls made by the call, in order
    result,         \* per task: what the call returned or raised
    pre,            \* per task: the collection as it was when the call started
    lastwriter,     \* the task whose collection.save was issued most recently (0: none yet)
    workers,        \* the Worker collection: a set of documents keyed by _id
    hpc,            \* per handler instance: the place the event handler has reached
    hevent,         \* per handler instance: the event being handled
    hfound,         \* per handler instance: whether its lookup found the worker
    hlog            \* per handler instance: the calls it made for the event, in order

bvars == <<distributors, pc, call, local, log, result, pre, lastwriter>>
wvars == <<workers, hpc, hevent, hfound, hlog>>
vars == <<distributors, pc, call, local, log, result, pre, lastwriter,
          workers, hpc, hevent, hfound, hlog>>

-----------------------------------------------------------------------------
(* Bounds of the model *)

MaxIdLen == 2       \* longest distributor_id the callers pass in
MaxUuids == 2       \* how many generated ids the uuid pool holds
MaxTime == 3        \* heartbeat timestamps are 1..MaxTime
NumKeys == 2        \* how many configuration keys the callers use
MaxSchedules == 2   \* longest list of scheduled publishes a race may build

-----------------------------------------------------------------------------
(* Python values *)

None == "None"
NoneObj == [none |-> TRUE]
NoId == <<"None">>

Tasks == {1, 2}
Handlers == {1, 2}

Letters == {"a", "b", "c", "d", "e", "f", "g", "h", "i", "j", "k", "l", "m",
            "n", "o", "p", "q", "r", "s", "t", "u", "v", "w", "x", "y", "z",
            "A", "B", "C", "D", "E", "F", "G", "H", "I", "J", "K", "L", "M",
            "N", "O", "P", "Q", "R", "S", "T", "U", "V", "W", "X", "Y", "Z"}
Digits == {"0", "1", "2", "3", "4", "5", "6", "7", "8", "9"}

\* The character class [\-_A-Za-z0-9] of _DISTRIBUTOR_ID_REGEX.
IdClass == Letters \cup Digits \cup {"-", "_"}

\* re.match of ^[\-_A-Za-z0-9]+$ : one or more class characters from the
\* start, then $, which (without re.MULTILINE) matches at the end of the
\* string and also just before a newline that ends the string.
RegexMatch(s) ==
    \E n \in 1..Len(s) :
        /\ \A i \in 1..n : s[i] \in IdClass
        /\ \/ n = Len(s)
           \/ n = Len(s) - 1 /\ s[Len(s)] = "\n"

is_distributor_id_valid(distributor_id) == RegexMatch(distributor_id)

\* str(uuid.uuid4()): a token no caller passes in; the n-th token of the pool.
DigitChar == <<"1", "2", "3", "4", "5", "6", "7", "8", "9">>
Uuid(n) == <<"u", "-", DigitChar[n]>>
Uuids == {Uuid(n) : n \in 1..MaxUuids}

-----------------------------------------------------------------------------
(* Collaborators: the repo collection and the plugin registry *)

\* Repo.get_collection(): the repositories that exist (repo CRUD is external).
Repos == {"r1", "r2"}

\* plugin_api.is_valid_distributor
DistributorTypes == {"t1", "t2"}
is_valid_distributor(distributor_type_id) == distributor_type_id \in DistributorTypes

\* plugin_api.get_distributor_by_id(...)[1]: the plugin's default configuration.
plugin_config(distributor_type_id) == [dflt |-> distributor_type_id]

\* PluginCallConfiguration(plugin_config, repo_plugin_config)
PluginCallConfiguration(pconf, repo_plugin_config) ==
    [plugin_config |-> pconf, repo_plugin_config |-> repo_plugin_config]

\* What a plugin's validate_config may do: return a bool, return a
\* (bool, message) tuple, or raise.
ValidateOutcomes ==
    {[kind |-> "bool", valid |-> TRUE],
     [kind |-> "bool", valid |-> FALSE],
     [kind |-> "tuple", valid |-> TRUE, message |-> None],
     [kind |-> "tuple", valid |-> FALSE, message |-> "foo"],
     [kind |-> "raise", args |-> "boom"]}

\* What distributor_added / distributor_removed may do: return or raise.
CallbackOutcomes == {"return", "raise"}

-----------------------------------------------------------------------------
(* The document collection *)

DocKey(doc) == <<doc.repo_id, doc.id>>

\* collection.find_one({'repo_id': repo_id, 'id': distributor_id})
FindOne(coll, repo_id, distributor_id) ==
    IF \E d \in coll : DocKey(d) = <<repo_id, distributor_id>>
    THEN CHOOSE d \in coll : DocKey(d) = <<repo_id, distributor_id>>
    ELSE NoneObj

\* The ObjectIds of the stored documents and of the documents running calls
\* hold; a new document gets another one.
OidsOf(coll) == {d._id : d \in coll}
UsedOids ==
    OidsOf(distributors)
    \cup {local[t].repo_distributor._id :
            t \in {u \in Tasks : local[u].repo_distributor # NoneObj}}
NewOid == CHOOSE n \in 1..(Cardinality(UsedOids) + 1) : n \notin UsedOids

\* RepoDistributor(repo_id, id, distributor_type_id, config, auto_publish):
\* a new document, with an empty scratchpad and no scheduled publishes.
RepoDistributor(repo_id, id, distributor_type_id, config, auto_publish) ==
    [_id |-> NewOid, repo_id |-> repo_id, id |-> id,
     distributor_type_id |-> distributor_type_id, config |-> config,
     auto_publish |-> auto_publish, scratchpad |-> None,
     scheduled_publishes |-> <<>>]

\* The unique index on (repo_id, id): a write is refused when another
\* document already holds the key.
DuplicateKey(coll, doc) ==
    \E d \in coll : d._id # doc._id /\ DocKey(d) = DocKey(doc)

\* collection.save(doc, safe=True): insert, or replace the document of that _id.
CollSave(coll, doc) == {d \in coll : d._id # doc._id} \cup {doc}

\* collection.remove({'_id': oid}, safe=True)
CollRemove(coll, oid) == {d \in coll : d._id # oid}

-----------------------------------------------------------------------------
(* Exceptions and results *)

MissingResource(resources) == [type |-> "MissingResource", resources |-> resources]
InvalidValue(property_names) == [type |-> "InvalidValue", property_names |-> property_names]
PulpDataException(args) == [type |-> "PulpDataException", args |-> args]
PulpExecutionException == [type |-> "PulpExecutionException"]
PluginError(origin, args) == [type |-> "Exception", origin |-> origin, args |-> args]
TypeError == [type |-> "TypeError"]
DuplicateKeyError == [type |-> "DuplicateKeyError"]

NoResult == [status |-> "none"]
Raised(exc) == [status |-> "raised", exc |-> exc]
Returned(value) == [status |-> "returned", value |-> value]

NoCall == [op |-> "none"]
NoLocal == [distributor_id |-> NoId, config |-> NoneObj, delta |-> NoneObj,
            repo_distributor |-> NoneObj, in_add |-> FALSE]

\* The call of task t ends: it returns or raises r.
Finish(t, r) ==
    /\ pc' = [pc EXCEPT ![t] = "done"]
    /\ result' = [result EXCEPT ![t] = r]

\* The call of task t goes on at label; it has no result yet.
Goto(t, label) ==
    /\ pc' = [pc EXCEPT ![t] = label]
    /\ result' = [result EXCEPT ![t] = NoResult]

Logged(t, event) == log' = [log EXCEPT ![t] = Append(@, event)]

SetLocal(t, l) == local' = [local EXCEPT ![t] = l]

\* A task takes up a new call: its log starts afresh.
Enter(t, c) ==
    /\ pc[t] \in {"idle", "done"}
    /\ call' = [call EXCEPT ![t] = c]
    /\ pre' = [pre EXCEPT ![t] = distributors]
    /\ log' = [log EXCEPT ![t] = <<>>]

\* A step inside a call leaves its arguments and its snapshot alone.
Inside(t, label) ==
    /\ pc[t] = label
    /\ UNCHANGED <<call, pre, wvars>>

-----------------------------------------------------------------------------
(* Configuration maps *)

\* Mutant of CleanConfig: the configuration is passed on as it came, its
\* None values included.
CleanConfigKeepsUnset(repo_plugin_config) == repo_plugin_config

\* dict([(k, v) for k, v in repo_plugin_config.items() if v is not None])
CleanConfig(repo_plugin_config) ==
    IF repo_plugin_config = NoneObj
    THEN NoneObj
    ELSE [k \in {j \in DOMAIN repo_plugin_config : repo_plugin_config[j] # None}
            |-> repo_plugin_config[k]]

\* unset_property_names = [k for k in distributor_config if distributor_config[k] is None]
UnsetPropertyNames(distributor_config) ==
    {k \in DOMAIN distributor_config : distributor_config[k] = None}

\* dict.pop(key, None) for every key of names
PopAll(d, names) == [k \in (DOMAIN d) \ names |-> d[k]]

\* Mutant of DictUpdate: the other dict takes the place of d.
DictReplace(d, other) == other

\* d.update(other)
DictUpdate(d, other) ==
    [k \in (DOMAIN d) \cup (DOMAIN other) |-> IF k \in DOMAIN other THEN other[k] ELSE d[k]]

\* The delta as update_distributor_config leaves it: the unset keys popped.
StrippedDelta(distributor_config) ==
    PopAll(distributor_config, UnsetPropertyNames(distributor_config))

\* Mutant of MergedConfig: the unset keys are popped from the delta only,
\* and stay in the stored configuration.
MergedConfigKeepsStored(stored, distributor_config) ==
    DictUpdate(stored, StrippedDelta(distributor_config))

\* merged_config: the stored config, the unset keys popped, the rest merged in.
MergedConfig(stored, distributor_config) ==
    DictUpdate(PopAll(stored, UnsetPropertyNames(distributor_config)),
               StrippedDelta(distributor_config))

-----------------------------------------------------------------------------
(* validate_config's result, as the manager reads it *)

\* Mutant of ValidConfig: the result is tested for truth as it is, and a
\* (bool, message) tuple is always true.
ValidConfigTruthy(outcome) == IF outcome.kind = "bool" THEN outcome.valid ELSE TRUE

\* isinstance(result, bool): valid_config = result; else valid_config, message = result
ValidConfig(outcome) == outcome.valid

Message(outcome) == IF outcome.kind = "bool" THEN None ELSE outcome.message

-----------------------------------------------------------------------------
(* add_distributor *)

\* Mutant of FreshUuids: a generated id may be one that is already in use.
RepeatedUuids == Uuids

\* Generated ids no document and no running call holds.
FreshUuids ==
    Uuids \ ({d.id : d \in distributors} \cup {local[u].distributor_id : u \in Tasks})

\* Mutant of AddDistributor: the plugin type is checked first, the repo second.
AddDistributorTypeFirst(t, c) ==
    /\ c.op = "add"
    /\ Enter(t, c)
    /\ UNCHANGED <<distributors, lastwriter, wvars>>
    /\ IF ~is_valid_distributor(c.distributor_type_id)
       THEN /\ Finish(t, Raised(InvalidValue(<<"distributor_type_id">>)))
            /\ SetLocal(t, NoLocal)
       ELSE IF c.repo_id \notin Repos
       THEN /\ Finish(t, Raised(MissingResource([repository |-> c.repo_id])))
            /\ SetLocal(t, NoLocal)
       ELSE IF c.distributor_id # NoId /\ ~is_distributor_id_valid(c.distributor_id)
       THEN /\ Finish(t, Raised(InvalidValue(<<"distributor_id">>)))
            /\ SetLocal(t, NoLocal)
       ELSE \E id \in (IF c.distributor_id = NoId THEN FreshUuids ELSE {c.distributor_id}) :
            /\ SetLocal(t, [NoLocal EXCEPT !.distributor_id = id,
                                           !.config = CleanConfig(c.repo_plugin_config),
                                           !.in_add = TRUE])
            /\ Goto(t, "add_validate")

\* Lines 123-150: the repo lookup, the type and id checks, the id generation
\* and the cleaning of the configuration.
AddDistributor(t, c) ==
    /\ c.op = "add"
    /\ Enter(t, c)
    /\ UNCHANGED <<distributors, lastwriter, wvars>>
    /\ IF c.repo_id \notin Repos
       THEN /\ Finish(t, Raised(MissingResource([repository |-> c.repo_id])))
            /\ SetLocal(t, NoLocal)
       ELSE IF ~is_valid_distributor(c.distributor_type_id)
       THEN /\ Finish(t, Raised(InvalidValue(<<"distributor_type_id">>)))
            /\ SetLocal(t, NoLocal)
       ELSE IF c.distributor_id # NoId /\ ~is_distributor_id_valid(c.distributor_id)
       THEN /\ Finish(t, Raised(InvalidValue(<<"distributor_id">>)))
            /\ SetLocal(t, NoLocal)
       ELSE \E id \in (IF c.distributor_id = NoId THEN FreshUuids ELSE {c.distributor_id}) :
            /\ SetLocal(t, [NoLocal EXCEPT !.distributor_id = id,
                                           !.config = CleanConfig(c.repo_plugin_config),
                                           !.in_add = TRUE])
            /\ Goto(t, "add_validate")

\* Lines 152-168: validate_config is called outside any try block, so what
\* it raises leaves add_distributor as it is.
AddValidate(t) ==
    /\ Inside(t, "add_validate")
    /\ UNCHANGED <<distributors, local, lastwriter>>
    /\ \E outcome \in ValidateOutcomes :
        /\ Logged(t, [ev |-> "validate_config", outcome |-> outcome,
                      distributor_type_id |-> call[t].distributor_type_id,
                      call_config |-> PluginCallConfiguration(
                          plugin_config(call[t].distributor_type_id), local[t].config)])
        /\ IF outcome.kind = "raise"
           THEN Finish(t, Raised(PluginError("validate_config", outcome.args)))
           ELSE IF ~ValidConfig(outcome)
           THEN Finish(t, Raised(PulpDataException(Message(outcome))))
           ELSE Goto(t, "add_remove")

\* Mutant of AddRemoveOld: the old document is deleted at once, without the
\* schedule deletion and without distributor_removed.
AddRemoveOldNoCallback(t) ==
    /\ Inside(t, "add_remove")
    /\ UNCHANGED <<distributors, log, lastwriter>>
    /\ LET found == FindOne(distributors, call[t].repo_id, local[t].distributor_id) IN
       IF found = NoneObj
       THEN /\ Goto(t, "add_callback")
            /\ UNCHANGED local
       ELSE /\ Goto(t, "rm_delete")
            /\ SetLocal(t, [local[t] EXCEPT !.repo_distributor = found])

\* Lines 170-174 with 207-217: the lookup of the distributor to replace; a
\* MissingResource is swallowed.
AddRemoveOld(t) ==
    /\ Inside(t, "add_remove")
    /\ UNCHANGED <<distributors, log, lastwriter>>
    /\ LET found == FindOne(distributors, call[t].repo_id, local[t].distributor_id) IN
       IF found = NoneObj
       THEN /\ Goto(t, "add_callback")
            /\ UNCHANGED local
       ELSE /\ Goto(t, "rm_schedules")
            /\ SetLocal(t, [local[t] EXCEPT !.repo_distributor = found])

\* Mutant of AddCallback: what distributor_added raises is logged and
\* swallowed, and the document is saved.
AddCallbackSwallows(t) ==
    /\ Inside(t, "add_callback")
    /\ UNCHANGED <<distributors, local, lastwriter>>
    /\ \E outcome \in CallbackOutcomes :
        /\ Logged(t, [ev |-> "distributor_added", outcome |-> outcome,
                      distributor_type_id |-> call[t].distributor_type_id,
                      call_config |-> PluginCallConfiguration(
                          plugin_config(call[t].distributor_type_id), local[t].config)])
        /\ Goto(t, "add_save")

\* Lines 176-183: distributor_added; whatever it raises becomes a
\* PulpExecutionException, raised before the database update.
AddCallback(t) ==
    /\ Inside(t, "add_callback")
    /\ UNCHANGED <<distributors, local, lastwriter>>
    /\ \E outcome \in CallbackOutcomes :
        /\ Logged(t, [ev |-> "distributor_added", outcome |-> outcome,
                      distributor_type_id |-> call[t].distributor_type_id,
                      call_config |-> PluginCallConfiguration(
                          plugin_config(call[t].distributor_type_id), local[t].config)])
        /\ IF outcome = "raise"
           THEN Finish(t, Raised(PulpExecutionException))
           ELSE Goto(t, "add_save")

\* Mutant of AddSave: the new document takes over the scratchpad and the
\* scheduled publishes of the document it replaces.
AddSaveInherits(t) ==
    /\ Inside(t, "add_save")
    /\ UNCHANGED local
    /\ lastwriter' = t
    /\ LET built == RepoDistributor(call[t].repo_id, local[t].distributor_id,
                                    call[t].distributor_type_id, local[t].config,
                                    call[t].auto_publish)
           old == local[t].repo_distributor
           distributor == IF old = NoneObj THEN built
                          ELSE [built EXCEPT !.scratchpad = old.scratchpad,
                                             !.scheduled_publishes = old.scheduled_publishes]
       IN /\ distributors' = CollSave(distributors, distributor)
          /\ Logged(t, [ev |-> "save", doc |-> distributor])
          /\ Finish(t, Returned(distributor))

\* Lines 185-190: the new document is built and saved.
AddSave(t) ==
    /\ Inside(t, "add_save")
    /\ UNCHANGED local
    /\ lastwriter' = t
    /\ LET distributor == RepoDistributor(call[t].repo_id, local[t].distributor_id,
                                          call[t].distributor_type_id, local[t].config,
                                          call[t].auto_publish) IN
       IF DuplicateKey(distributors, distributor)
       THEN /\ Finish(t, Raised(DuplicateKeyError))
            /\ UNCHANGED <<distributors, log>>
       ELSE /\ distributors' = CollSave(distributors, distributor)
            /\ Logged(t, [ev |-> "save", doc |-> distributor])
            /\ Finish(t, Returned(distributor))

-----------------------------------------------------------------------------
(* remove_distributor *)

\* Mutant of RemoveDistributor: distributor_removed is called at once,
\* without the schedule deletion before it.
RemoveDistributorCallbackFirst(t, c) ==
    /\ c.op = "remove"
    /\ Enter(t, c)
    /\ UNCHANGED <<distributors, lastwriter, wvars>>
    /\ IF c.repo_id \notin Repos
       THEN /\ Finish(t, Raised(MissingResource([repository |-> c.repo_id])))
            /\ SetLocal(t, NoLocal)
       ELSE LET found == FindOne(distributors, c.repo_id, c.distributor_id) IN
            IF found = NoneObj
            THEN /\ Finish(t, Raised(MissingResource([distributor |-> c.distributor_id])))
                 /\ SetLocal(t, NoLocal)
            ELSE /\ Goto(t, "rm_callback")
                 /\ SetLocal(t, [NoLocal EXCEPT !.distributor_id = c.distributor_id,
                                                !.repo_distributor = found])

\* Lines 207-217: the repo and distributor lookups of a direct call.
RemoveDistributor(t, c) ==
    /\ c.op = "remove"
    /\ Enter(t, c)
    /\ UNCHANGED <<distributors, lastwriter, wvars>>
    /\ IF c.repo_id \notin Repos
       THEN /\ Finish(t, Raised(MissingResource([repository |-> c.repo_id])))
            /\ SetLocal(t, NoLocal)
       ELSE LET found == FindOne(distributors, c.repo_id, c.distributor_id) IN
            IF found = NoneObj
            THEN /\ Finish(t, Raised(MissingResource([distributor |-> c.distributor_id])))
                 /\ SetLocal(t, NoLocal)
            ELSE /\ Goto(t, "rm_schedules")
                 /\ SetLocal(t, [NoLocal EXCEPT !.distributor_id = c.distributor_id,
                                                !.repo_distributor = found])

\* Mutant of RemoveSchedules: the schedules are left alone and
\* distributor_removed comes first.
RemoveSchedulesSkipped(t) ==
    /\ Inside(t, "rm_schedules")
    /\ UNCHANGED <<distributors, local, lastwriter, log>>
    /\ Goto(t, "rm_callback")

\* Lines 219-220: the schedules of the distributor are deleted.
RemoveSchedules(t) ==
    /\ Inside(t, "rm_schedules")
    /\ UNCHANGED <<distributors, local, lastwriter>>
    /\ Logged(t, [ev |-> "delete_by_distributor_id",
                  repo_id |-> call[t].repo_id,
                  distributor_id |-> local[t].repo_distributor.id])
    /\ Goto(t, "rm_callback")

\* Mutant of RemoveCallback: what distributor_removed raises is swallowed
\* and the removal goes on.
RemoveCallbackSwallows(t) ==
    /\ Inside(t, "rm_callback")
    /\ UNCHANGED <<distributors, local, lastwriter>>
    /\ \E outcome \in CallbackOutcomes :
        /\ Logged(t, [ev |-> "distributor_removed", outcome |-> outcome,
                      distributor_type_id |-> local[t].repo_distributor.distributor_type_id,
                      call_config |-> PluginCallConfiguration(
                          plugin_config(local[t].repo_distributor.distributor_type_id),
                          local[t].repo_distributor.config)])
        /\ Goto(t, "rm_delete")

\* Lines 222-231: distributor_removed is called outside any try block; what
\* it raises leaves remove_distributor (and an add_distributor around it,
\* which only catches MissingResource) as it is.
RemoveCallback(t) ==
    /\ Inside(t, "rm_callback")
    /\ UNCHANGED <<distributors, local, lastwriter>>
    /\ \E outcome \in CallbackOutcomes :
        /\ Logged(t, [ev |-> "distributor_removed", outcome |-> outcome,
                      distributor_type_id |-> local[t].repo_distributor.distributor_type_id,
                      call_config |-> PluginCallConfiguration(
                          plugin_config(local[t].repo_distributor.distributor_type_id),
                          local[t].repo_distributor.config)])
        /\ IF outcome = "raise"
           THEN Finish(t, Raised(PluginError("distributor_removed", "boom")))
           ELSE Goto(t, "rm_delete")

\* Mutant of RemoveDelete: a remove inside add_distributor leaves the old
\* document in place (the save of the new one is to replace it).
RemoveDeleteKeepsInAdd(t) ==
    /\ Inside(t, "rm_delete")
    /\ UNCHANGED <<local, lastwriter>>
    /\ distributors' = IF local[t].in_add
                       THEN distributors
                       ELSE CollRemove(distributors, local[t].repo_distributor._id)
    /\ Logged(t, [ev |-> "remove", oid |-> local[t].repo_distributor._id])
    /\ IF local[t].in_add
       THEN Goto(t, "add_callback")
       ELSE Finish(t, Returned(NoneObj))

\* Lines 233-234: the document is removed by its _id; a remove inside
\* add_distributor returns to line 176.
RemoveDelete(t) ==
    /\ Inside(t, "rm_delete")
    /\ UNCHANGED <<local, lastwriter>>
    /\ distributors' = CollRemove(distributors, local[t].repo_distributor._id)
    /\ Logged(t, [ev |-> "remove", oid |-> local[t].repo_distributor._id])
    /\ IF local[t].in_add
       THEN Goto(t, "add_callback")
       ELSE Finish(t, Returned(NoneObj))

-----------------------------------------------------------------------------
(* update_distributor_config *)

\* Lines 263-292: the lookups and the merge of the delta into the stored
\* configuration; dict(None) raises TypeError.
UpdateDistributorConfig(t, c) ==
    /\ c.op = "update"
    /\ Enter(t, c)
    /\ UNCHANGED <<distributors, lastwriter, wvars>>
    /\ IF c.repo_id \notin Repos
       THEN /\ Finish(t, Raised(MissingResource([repository |-> c.repo_id])))
            /\ SetLocal(t, NoLocal)
       ELSE LET found == FindOne(distributors, c.repo_id, c.distributor_id) IN
            IF found = NoneObj
            THEN /\ Finish(t, Raised(MissingResource([distributor |-> c.distributor_id])))
                 /\ SetLocal(t, NoLocal)
            ELSE IF found.config = NoneObj
            THEN /\ Finish(t, Raised(TypeError))
                 /\ SetLocal(t, NoLocal)
            ELSE /\ Goto(t, "upd_validate")
                 /\ SetLocal(t, [NoLocal EXCEPT
                        !.distributor_id = c.distributor_id,
                        !.repo_distributor = found,
                        !.delta = StrippedDelta(c.distributor_config),
                        !.config = MergedConfig(found.config, c.distributor_config)])

\* Lines 294-318: validate_config inside the try block; what it raises
\* becomes a PulpDataException.
UpdateValidate(t) ==
    /\ Inside(t, "upd_validate")
    /\ UNCHANGED <<distributors, local, lastwriter>>
    /\ \E outcome \in ValidateOutcomes :
        /\ Logged(t, [ev |-> "validate_config", outcome |-> outcome,
                      distributor_type_id |-> local[t].repo_distributor.distributor_type_id,
                      call_config |-> PluginCallConfiguration(
                          plugin_config(local[t].repo_distributor.distributor_type_id),
                          local[t].config)])
        /\ IF outcome.kind = "raise"
           THEN Finish(t, Raised(PulpDataException(outcome.args)))
           ELSE IF ~ValidConfig(outcome)
           THEN Finish(t, Raised(PulpDataException(Message(outcome))))
           ELSE Goto(t, "upd_save")

\* Mutant of IsBool: every value passes for a bool.
IsBoolAny(v) == TRUE

\* isinstance(auto_publish, bool)
IsBool(v) == v \in {"True", "False"}

\* Mutant of UpdateSave: a new document is built around the merged
\* configuration, and only the _id and the key of the old one are kept.
UpdateSaveRebuilds(t) ==
    /\ Inside(t, "upd_save")
    /\ UNCHANGED local
    /\ lastwriter' = t
    /\ LET old == local[t].repo_distributor
           repo_distributor ==
               [RepoDistributor(old.repo_id, old.id, old.distributor_type_id,
                                local[t].config, old.auto_publish)
                   EXCEPT !._id = old._id]
       IN /\ distributors' = CollSave(distributors, repo_distributor)
          /\ Logged(t, [ev |-> "save", doc |-> repo_distributor])
          /\ Finish(t, Returned(repo_distributor))

\* Lines 320-331: the auto_publish check, then the document read at line
\* 271 is saved with the merged configuration.
UpdateSave(t) ==
    /\ Inside(t, "upd_save")
    /\ UNCHANGED local
    /\ lastwriter' = IF call[t].auto_publish # None /\ ~IsBool(call[t].auto_publish)
                      THEN lastwriter ELSE t
    /\ IF call[t].auto_publish # None /\ ~IsBool(call[t].auto_publish)
       THEN /\ Finish(t, Raised(InvalidValue(<<"auto_publish">>)))
            /\ UNCHANGED <<distributors, log>>
       ELSE LET flagged == IF call[t].auto_publish # None
                           THEN [local[t].repo_distributor EXCEPT
                                    !.auto_publish = call[t].auto_publish]
                           ELSE local[t].repo_distributor
                repo_distributor == [flagged EXCEPT !.config = local[t].config]
            IN IF DuplicateKey(distributors, repo_distributor)
               THEN /\ Finish(t, Raised(DuplicateKeyError))
                    /\ UNCHANGED <<distributors, log>>
               ELSE /\ distributors' = CollSave(distributors, repo_distributor)
                    /\ Logged(t, [ev |-> "save", doc |-> repo_distributor])
                    /\ Finish(t, Returned(repo_distributor))

-----------------------------------------------------------------------------
(* find_by_repo_list *)

\* Mutant of FindIn: the $in filter is dropped and every document matches.
FindInAny(coll, repo_id_list) == coll

\* find({'repo_id': {'$in': repo_id_list}}): the documents the spec matches.
FindIn(coll, repo_id_list) == {d \in coll : d.repo_id \in repo_id_list}

\* The projection {'scratchpad': 0}: the document without its scratchpad.
Projection(doc) == [k \in (DOMAIN doc) \ {"scratchpad"} |-> doc[k]]

\* Lines 87-89: one query; the list it returns is kept as a set.
FindByRepoList(t, c) ==
    /\ c.op = "find_by_repo_list"
    /\ Enter(t, c)
    /\ UNCHANGED <<distributors, lastwriter, wvars>>
    /\ SetLocal(t, NoLocal)
    /\ Finish(t, Returned({Projection(d) : d \in FindIn(distributors, c.repo_id_list)}))

-----------------------------------------------------------------------------
(* The distributor's scratchpad *)

\* Lines 392-400: None when there is no such distributor, else its scratchpad.
GetDistributorScratchpad(t, c) ==
    /\ c.op = "get_scratchpad"
    /\ Enter(t, c)
    /\ UNCHANGED <<distributors, lastwriter, wvars>>
    /\ SetLocal(t, NoLocal)
    /\ LET repo_distributor == FindOne(distributors, c.repo_id, c.distributor_id) IN
       IF repo_distributor = NoneObj
       THEN Finish(t, Returned(None))
       ELSE Finish(t, Returned(repo_distributor.scratchpad))

\* Mutant of SetDistributorScratchpad: a missing distributor is not noticed
\* and a document is made up for it.
SetDistributorScratchpadCreates(t, c) ==
    /\ c.op = "set_scratchpad"
    /\ Enter(t, c)
    /\ UNCHANGED <<distributors, lastwriter, wvars>>
    /\ LET repo_distributor == FindOne(distributors, c.repo_id, c.distributor_id)
           made == [_id |-> NewOid, repo_id |-> c.repo_id, id |-> c.distributor_id,
                    distributor_type_id |-> None, config |-> NoneObj,
                    auto_publish |-> None, scratchpad |-> None,
                    scheduled_publishes |-> <<>>]
           doc == IF repo_distributor = NoneObj THEN made ELSE repo_distributor
       IN /\ Goto(t, "sp_save")
          /\ SetLocal(t, [NoLocal EXCEPT
                 !.distributor_id = c.distributor_id,
                 !.repo_distributor = [doc EXCEPT !.scratchpad = c.contents]])

\* Lines 420-428: the lookup; nothing is done when there is no such
\* distributor, else the contents are put into the document that was read.
SetDistributorScratchpad(t, c) ==
    /\ c.op = "set_scratchpad"
    /\ Enter(t, c)
    /\ UNCHANGED <<distributors, lastwriter, wvars>>
    /\ LET repo_distributor == FindOne(distributors, c.repo_id, c.distributor_id) IN
       IF repo_distributor = NoneObj
       THEN /\ Finish(t, Returned(NoneObj))
            /\ SetLocal(t, NoLocal)
       ELSE /\ Goto(t, "sp_save")
            /\ SetLocal(t, [NoLocal EXCEPT
                   !.distributor_id = c.distributor_id,
                   !.repo_distributor = [repo_distributor EXCEPT !.scratchpad = c.contents]])

\* Mutant of ScratchpadSave: only the scratchpad survives the save, the
\* other fields are reset.
ScratchpadSaveResets(t) ==
    /\ Inside(t, "sp_save")
    /\ UNCHANGED local
    /\ lastwriter' = t
    /\ LET doc == [local[t].repo_distributor EXCEPT
                      !.config = NoneObj, !.auto_publish = None,
                      !.scheduled_publishes = <<>>] IN
       /\ distributors' = CollSave(distributors, doc)
       /\ Logged(t, [ev |-> "save", doc |-> doc])
       /\ Finish(t, Returned(NoneObj))

\* Line 429: the whole document that was read is saved.
ScratchpadSave(t) ==
    /\ Inside(t, "sp_save")
    /\ UNCHANGED local
    /\ lastwriter' = t
    /\ IF DuplicateKey(distributors, local[t].repo_distributor)
       THEN /\ Finish(t, Raised(DuplicateKeyError))
            /\ UNCHANGED <<distributors, log>>
       ELSE /\ distributors' = CollSave(distributors, local[t].repo_distributor)
            /\ Logged(t, [ev |-> "save", doc |-> local[t].repo_distributor])
            /\ Finish(t, Returned(NoneObj))

-----------------------------------------------------------------------------
(* The distributor's scheduled publishes *)

\* schedule_id in distributor['scheduled_publishes']
InList(x, list) == \E i \in DOMAIN list : list[i] = x

\* {'$pull': {field: x}}: every occurrence of the value is taken out.
RECURSIVE Pull(_, _)
Pull(list, x) ==
    IF list = <<>> THEN <<>>
    ELSE IF Head(list) = x THEN Pull(Tail(list), x)
    ELSE <<Head(list)>> \o Pull(Tail(list), x)

\* Mutant of CollPush: the _id is left out of the query and every document
\* is updated.
CollPushEvery(coll, oid, x) ==
    {[d EXCEPT !.scheduled_publishes = Append(@, x)] : d \in coll}

\* collection.update({'_id': oid}, {'$push': {'scheduled_publishes': x}}):
\* one atomic step on the document of that _id as it is stored now.
CollPush(coll, oid, x) ==
    {IF d._id = oid
     THEN [d EXCEPT !.scheduled_publishes = Append(@, x)]
     ELSE d : d \in coll}

\* collection.update({'_id': oid}, {'$pull': {'scheduled_publishes': x}})
CollPull(coll, oid, x) ==
    {IF d._id = oid
     THEN [d EXCEPT !.scheduled_publishes = Pull(@, x)]
     ELSE d : d \in coll}

\* Mutant of AddPublishSchedule: the membership test of line 442 is left out.
AddPublishScheduleNoTest(t, c) ==
    /\ c.op = "add_schedule"
    /\ Enter(t, c)
    /\ UNCHANGED <<distributors, lastwriter, wvars>>
    /\ LET distributor == FindOne(distributors, c.repo_id, c.distributor_id) IN
       IF distributor = NoneObj
       THEN /\ Finish(t, Raised(MissingResource([repo |-> c.repo_id,
                                                 distributor |-> c.distributor_id])))
            /\ SetLocal(t, NoLocal)
       ELSE /\ Goto(t, "sched_push")
            /\ SetLocal(t, [NoLocal EXCEPT !.distributor_id = c.distributor_id,
                                           !.repo_distributor = distributor])

\* Lines 438-443: the lookup and the membership test of add_publish_schedule.
AddPublishSchedule(t, c) ==
    /\ c.op = "add_schedule"
    /\ Enter(t, c)
    /\ UNCHANGED <<distributors, lastwriter, wvars>>
    /\ LET distributor == FindOne(distributors, c.repo_id, c.distributor_id) IN
       IF distributor = NoneObj
       THEN /\ Finish(t, Raised(MissingResource([repo |-> c.repo_id,
                                                 distributor |-> c.distributor_id])))
            /\ SetLocal(t, NoLocal)
       ELSE IF InList(c.schedule_id, distributor.scheduled_publishes)
       THEN /\ Finish(t, Returned(NoneObj))
            /\ SetLocal(t, NoLocal)
       ELSE /\ Goto(t, "sched_push")
            /\ SetLocal(t, [NoLocal EXCEPT !.distributor_id = c.distributor_id,
                                           !.repo_distributor = distributor])

\* Lines 444-446: the $push on the document of the _id that was read.
SchedulePush(t) ==
    /\ Inside(t, "sched_push")
    /\ UNCHANGED <<local, lastwriter>>
    /\ distributors' = CollPush(distributors, local[t].repo_distributor._id,
                                call[t].schedule_id)
    /\ Logged(t, [ev |-> "push", oid |-> local[t].repo_distributor._id])
    /\ Finish(t, Returned(NoneObj))

\* Lines 455-460: the lookup and the membership test of remove_publish_schedule.
RemovePublishSchedule(t, c) ==
    /\ c.op = "remove_schedule"
    /\ Enter(t, c)
    /\ UNCHANGED <<distributors, lastwriter, wvars>>
    /\ LET distributor == FindOne(distributors, c.repo_id, c.distributor_id) IN
       IF distributor = NoneObj
       THEN /\ Finish(t, Raised(MissingResource([repo |-> c.repo_id,
                                                 distributor |-> c.distributor_id])))
            /\ SetLocal(t, NoLocal)
       ELSE IF ~InList(c.schedule_id, distributor.scheduled_publishes)
       THEN /\ Finish(t, Returned(NoneObj))
            /\ SetLocal(t, NoLocal)
       ELSE /\ Goto(t, "sched_pull")
            /\ SetLocal(t, [NoLocal EXCEPT !.distributor_id = c.distributor_id,
                                           !.repo_distributor = distributor])

\* Lines 461-463: the $pull on the document of the _id that was read.
SchedulePull(t) ==
    /\ Inside(t, "sched_pull")
    /\ UNCHANGED <<local, lastwriter>>
    /\ distributors' = CollPull(distributors, local[t].repo_distributor._id,
                                call[t].schedule_id)
    /\ Logged(t, [ev |-> "pull", oid |-> local[t].repo_distributor._id])
    /\ Finish(t, Returned(NoneObj))

\* Mutant of ListPublishSchedules: a distributor that is not stored has no
\* scheduled publishes.
ListPublishSchedulesLenient(t, c) ==
    /\ c.op = "list_schedules"
    /\ Enter(t, c)
    /\ UNCHANGED <<distributors, lastwriter, wvars>>
    /\ SetLocal(t, NoLocal)
    /\ LET distributor == FindOne(distributors, c.repo_id, c.distributor_id) IN
       IF distributor = NoneObj
       THEN Finish(t, Returned(<<>>))
       ELSE Finish(t, Returned(distributor.scheduled_publishes))

\* Lines 471-475: the scheduled publishes of the distributor.
ListPublishSchedules(t, c) ==
    /\ c.op = "list_schedules"
    /\ Enter(t, c)
    /\ UNCHANGED <<distributors, lastwriter, wvars>>
    /\ SetLocal(t, NoLocal)
    /\ LET distributor == FindOne(distributors, c.repo_id, c.distributor_id) IN
       IF distributor = NoneObj
       THEN Finish(t, Raised(MissingResource([repo |-> c.repo_id,
                                              distributor |-> c.distributor_id])))
       ELSE Finish(t, Returned(distributor.scheduled_publishes))

-----------------------------------------------------------------------------
(* get_distributor, get_distributors, create_bind_payload *)

\* Lines 45-51: one lookup by (repo_id, id); the repo itself is not looked up.
GetDistributor(t, c) ==
    /\ c.op = "get"
    /\ Enter(t, c)
    /\ UNCHANGED <<distributors, lastwriter, wvars>>
    /\ SetLocal(t, NoLocal)
    /\ LET distributor == FindOne(distributors, c.repo_id, c.distributor_id) IN
       IF distributor = NoneObj
       THEN Finish(t, Raised(MissingResource([distributor |-> c.distributor_id])))
       ELSE Finish(t, Returned(distributor))

\* Mutant of GetDistributors: the repo is not looked up, and a repo that
\* does not exist has an empty list of distributors.
GetDistributorsNoRepoLookup(t, c) ==
    /\ c.op = "list"
    /\ Enter(t, c)
    /\ UNCHANGED <<distributors, lastwriter, wvars>>
    /\ SetLocal(t, NoLocal)
    /\ Finish(t, Returned({d \in distributors : d.repo_id = c.repo_id}))

\* Lines 67-72: the repo lookup, then find({'repo_id': repo_id}); the list it
\* returns is kept as a set.
GetDistributors(t, c) ==
    /\ c.op = "list"
    /\ Enter(t, c)
    /\ UNCHANGED <<distributors, lastwriter, wvars>>
    /\ SetLocal(t, NoLocal)
    /\ IF c.repo_id \notin Repos
       THEN Finish(t, Raised(MissingResource([repository |-> c.repo_id])))
       ELSE Finish(t, Returned({d \in distributors : d.repo_id = c.repo_id}))

\* What create_consumer_payload may return.
Payloads == {"p1", "p2"}

\* Lines 355-363: get_distributor, then the call configuration is built from
\* the document that was read.  (A stored distributor has an existing repo.)
CreateBindPayload(t, c) ==
    /\ c.op = "create_bind_payload"
    /\ Enter(t, c)
    /\ UNCHANGED <<distributors, lastwriter, wvars>>
    /\ LET repo_distributor == FindOne(distributors, c.repo_id, c.distributor_id) IN
       IF repo_distributor = NoneObj
       THEN /\ Finish(t, Raised(MissingResource([distributor |-> c.distributor_id])))
            /\ SetLocal(t, NoLocal)
       ELSE /\ Goto(t, "bind_payload")
            /\ SetLocal(t, [NoLocal EXCEPT !.distributor_id = c.distributor_id,
                                           !.repo_distributor = repo_distributor])

\* Mutant of BindPayloadCallback: what create_consumer_payload raises leaves
\* create_bind_payload as it is.
BindPayloadCallbackRaw(t) ==
    /\ Inside(t, "bind_payload")
    /\ UNCHANGED <<distributors, local, lastwriter>>
    /\ \E outcome \in CallbackOutcomes, payload \in Payloads :
        /\ Logged(t, [ev |-> "create_consumer_payload", outcome |-> outcome,
                      payload |-> IF outcome = "raise" THEN None ELSE payload,
                      distributor_type_id |-> local[t].repo_distributor.distributor_type_id,
                      binding_config |-> call[t].binding_config,
                      call_config |-> PluginCallConfiguration(
                          plugin_config(local[t].repo_distributor.distributor_type_id),
                          local[t].repo_distributor.config)])
        /\ IF outcome = "raise"
           THEN Finish(t, Raised(PluginError("create_consumer_payload", "boom")))
           ELSE Finish(t, Returned(payload))

\* Lines 366-374: create_consumer_payload inside the try block; its payload
\* is returned, and whatever it raises becomes a PulpExecutionException.
BindPayloadCallback(t) ==
    /\ Inside(t, "bind_payload")
    /\ UNCHANGED <<distributors, local, lastwriter>>
    /\ \E outcome \in CallbackOutcomes, payload \in Payloads :
        /\ Logged(t, [ev |-> "create_consumer_payload", outcome |-> outcome,
                      payload |-> IF outcome = "raise" THEN None ELSE payload,
                      distributor_type_id |-> local[t].repo_distributor.distributor_type_id,
                      binding_config |-> call[t].binding_config,
                      call_config |-> PluginCallConfiguration(
                          plugin_config(local[t].repo_distributor.distributor_type_id),
                          local[t].repo_distributor.config)])
        /\ IF outcome = "raise"
           THEN Finish(t, Raised(PulpExecutionException))
           ELSE Finish(t, Returned(payload))

-----------------------------------------------------------------------------
(* The calls the model makes *)

\* All strings over alphabet of length at most n.
RECURSIVE Strings(_, _)
Strings(alphabet, n) ==
    IF n = 0 THEN {<<>>}
    ELSE LET shorter == Strings(alphabet, n - 1) IN
         shorter \cup {Append(s, ch) : s \in shorter, ch \in alphabet}

AddCall(repo_id, distributor_type_id, repo_plugin_config, auto_publish, distributor_id) ==
    [op |-> "add", repo_id |-> repo_id, distributor_type_id |-> distributor_type_id,
     repo_plugin_config |-> repo_plugin_config, auto_publish |-> auto_publish,
     distributor_id |-> distributor_id]

RemoveCall(repo_id, distributor_id) ==
    [op |-> "remove", repo_id |-> repo_id, distributor_id |-> distributor_id]

UpdateCall(repo_id, distributor_id, distributor_config, auto_publish) ==
    [op |-> "update", repo_id |-> repo_id, distributor_id |-> distributor_id,
     distributor_config |-> distributor_config, auto_publish |-> auto_publish]

FindCall(repo_id_list) == [op |-> "find_by_repo_list", repo_id_list |-> repo_id_list]

GetScratchpadCall(repo_id, distributor_id) ==
    [op |-> "get_scratchpad", repo_id |-> repo_id, distributor_id |-> distributor_id]

SetScratchpadCall(repo_id, distributor_id, contents) ==
    [op |-> "set_scratchpad", repo_id |-> repo_id, distributor_id |-> distributor_id,
     contents |-> contents]

ScheduleCall(op, repo_id, distributor_id, schedule_id) ==
    [op |-> op, repo_id |-> repo_id, distributor_id |-> distributor_id,
     schedule_id |-> schedule_id]

ListSchedulesCall(repo_id, distributor_id) ==
    [op |-> "list_schedules", repo_id |-> repo_id, distributor_id |-> distributor_id]

GetCall(repo_id, distributor_id) ==
    [op |-> "get", repo_id |-> repo_id, distributor_id |-> distributor_id]

ListCall(repo_id) == [op |-> "list", repo_id |-> repo_id]

BindPayloadCall(repo_id, distributor_id, binding_config) ==
    [op |-> "create_bind_payload", repo_id |-> repo_id,
     distributor_id |-> distributor_id, binding_config |-> binding_config]

\* The steps every running call of task t may take.
CallStep(t) ==
    \/ AddValidate(t)
    \/ AddRemoveOld(t)
    \/ AddCallback(t)
    \/ AddSave(t)
    \/ RemoveSchedules(t)
    \/ RemoveCallback(t)
    \/ RemoveDelete(t)

UpdateStep(t) ==
    \/ UpdateValidate(t)
    \/ UpdateSave(t)

InitBindings ==
    /\ distributors = {}
    /\ pc = [t \in Tasks |-> "idle"]
    /\ call = [t \in Tasks |-> NoCall]
    /\ local = [t \in Tasks |-> NoLocal]
    /\ log = [t \in Tasks |-> <<>>]
    /\ result = [t \in Tasks |-> NoResult]
    /\ pre = [t \in Tasks |-> {}]
    /\ lastwriter = 0

InitWorkers ==
    /\ workers = {}
    /\ hpc = [h \in Handlers |-> "idle"]
    /\ hevent = [h \in Handlers |-> NoneObj]
    /\ hfound = [h \in Handlers |-> FALSE]
    /\ hlog = [h \in Handlers |-> <<>>]

Init == InitBindings /\ InitWorkers

-----------------------------------------------------------------------------
(* Spec: one task makes add, remove and update calls, one after another. *)

RepoIds == {"r1", "r9"}
TypeIds == {"t1", "t2", "t9"}
DistributorIds == {<<"d">>, <<"e">>}
Configs == {NoneObj, [a |-> None, b |-> "y"]}
Deltas == {[a |-> "y"], [b |-> None]}

AddCalls ==
    {AddCall(r, ty, cfg, "False", d) :
        r \in RepoIds, ty \in TypeIds, cfg \in Configs, d \in DistributorIds}
RemoveCalls == {RemoveCall(r, d) : r \in RepoIds, d \in DistributorIds}
UpdateCalls ==
    {UpdateCall(r, d, delta, None) : r \in RepoIds, d \in DistributorIds, delta \in Deltas}

Next ==
    \E t \in {1} :
        \/ \E c \in AddCalls : AddDistributor(t, c)
        \/ \E c \in RemoveCalls : RemoveDistributor(t, c)
        \/ \E c \in UpdateCalls : UpdateDistributorConfig(t, c)
        \/ CallStep(t)
        \/ UpdateStep(t)

Spec == Init /\ [][Next]_vars

-----------------------------------------------------------------------------
(* SpecConfig: one task adds and updates one distributor with every         *)
(* configuration and every delta over the keys and values.                  *)

KeyNames == <<"a", "b", "c", "d">>
Keys == {KeyNames[i] : i \in 1..NumKeys}
Values == {"x", "y"}

\* Every dict over the keys whose values are taken from vals.
Dicts(vals) == UNION {[ks -> vals] : ks \in SUBSET Keys}

ConfigAddCalls ==
    {AddCall("r1", "t1", cfg, "False", <<"d">>) : cfg \in Dicts(Values \cup {None}) \cup {NoneObj}}
ConfigUpdateCalls ==
    {UpdateCall("r1", <<"d">>, delta, None) : delta \in Dicts(Values \cup {None})}

NextConfig ==
    \E t \in {1} :
        \/ \E c \in ConfigAddCalls : AddDistributor(t, c)
        \/ \E c \in ConfigUpdateCalls : UpdateDistributorConfig(t, c)
        \/ CallStep(t)
        \/ UpdateStep(t)

SpecConfig == Init /\ [][NextConfig]_vars

-----------------------------------------------------------------------------
(* SpecIds: one task adds distributors under every identifier over a small  *)
(* alphabet, and removes them.                                              *)

IdAlphabet == {"d", "!", "\n"}
IdInputs == Strings(IdAlphabet, MaxIdLen)

IdAddCalls == {AddCall("r1", "t1", <<>>, "False", d) : d \in IdInputs \cup {NoId}}
IdRemoveCalls == {RemoveCall("r1", d) : d \in IdInputs}

NextIds ==
    \E t \in {1} :
        \/ \E c \in IdAddCalls : AddDistributor(t, c)
        \/ \E c \in IdRemoveCalls : RemoveDistributor(t, c)
        \/ CallStep(t)

SpecIds == Init /\ [][NextIds]_vars

-----------------------------------------------------------------------------
(* SpecRace: two tasks add one distributor under the same id; task 1 also   *)
(* removes it, task 2 also updates it and sets its scratchpad; their steps  *)
(* are interleaved in every way.                                            *)

RaceAddCalls == {AddCall("r1", "t1", [b |-> "y"], "False", <<"d">>)}
RaceRemoveCalls == {RemoveCall("r1", <<"d">>)}
RaceUpdateCalls == {UpdateCall("r1", <<"d">>, [a |-> "y"], None)}
RaceScratchpadCalls == {SetScratchpadCall("r1", <<"d">>, "v1")}

NextRace ==
    \/ \E c \in RaceRemoveCalls : RemoveDistributor(1, c)
    \/ \E c \in RaceUpdateCalls : UpdateDistributorConfig(2, c)
    \/ \E c \in RaceScratchpadCalls : SetDistributorScratchpad(2, c)
    \/ \E t \in Tasks :
        \/ \E c \in RaceAddCalls : AddDistributor(t, c)
        \/ CallStep(t)
        \/ UpdateStep(t)
        \/ ScratchpadSave(t)

SpecRace == Init /\ [][NextRace]_vars

-----------------------------------------------------------------------------
(* SpecOps: one task adds and removes one distributor, reads and writes its *)
(* scratchpad and changes its scheduled publishes, one call after another.  *)

ScheduleIds == {"s1", "s2"}
Contents == {"v1", "v2"}

OpsAddCalls == {AddCall("r1", "t1", [b |-> "y"], "True", <<"d">>)}
OpsRemoveCalls == {RemoveCall("r1", <<"d">>)}
OpsGetScratchpadCalls == {GetScratchpadCall(r, <<"d">>) : r \in RepoIds}
OpsSetScratchpadCalls == {SetScratchpadCall(r, <<"d">>, v) : r \in RepoIds, v \in Contents}
OpsAddScheduleCalls == {ScheduleCall("add_schedule", "r1", <<"d">>, x) : x \in ScheduleIds}
OpsRemoveScheduleCalls == {ScheduleCall("remove_schedule", "r1", <<"d">>, x) : x \in ScheduleIds}
OpsListSchedulesCalls == {ListSchedulesCall("r1", <<"d">>)}

NextOps ==
    \E t \in {1} :
        \/ \E c \in OpsAddCalls : AddDistributor(t, c)
        \/ \E c \in OpsRemoveCalls : RemoveDistributor(t, c)
        \/ \E c \in OpsGetScratchpadCalls : GetDistributorScratchpad(t, c)
        \/ \E c \in OpsSetScratchpadCalls : SetDistributorScratchpad(t, c)
        \/ \E c \in OpsAddScheduleCalls : AddPublishSchedule(t, c)
        \/ \E c \in OpsRemoveScheduleCalls : RemovePublishSchedule(t, c)
        \/ \E c \in OpsListSchedulesCalls : ListPublishSchedules(t, c)
        \/ CallStep(t)
        \/ ScratchpadSave(t)
        \/ SchedulePush(t)
        \/ SchedulePull(t)

SpecOps == Init /\ [][NextOps]_vars

-----------------------------------------------------------------------------
(* SpecSched: task 1 adds the distributor, and both tasks add and remove    *)
(* one scheduled publish on it, their steps interleaved in every way.       *)

SchedAddCalls == {AddCall("r1", "t1", NoneObj, "False", <<"d">>)}
SchedAddScheduleCalls == {ScheduleCall("add_schedule", "r1", <<"d">>, "s1")}
SchedRemoveScheduleCalls == {ScheduleCall("remove_schedule", "r1", <<"d">>, "s1")}

NextSched ==
    \/ \E c \in SchedAddCalls : AddDistributor(1, c)
    \/ \E t \in Tasks :
        \/ \E c \in SchedAddScheduleCalls : AddPublishSchedule(t, c)
        \/ \E c \in SchedRemoveScheduleCalls : RemovePublishSchedule(t, c)
        \/ CallStep(t)
        \/ SchedulePush(t)
        \/ SchedulePull(t)

SpecSched == Init /\ [][NextSched]_vars

-----------------------------------------------------------------------------
(* SpecPre: one task adds distributors to repos that exist or not, of types *)
(* that are registered or not, under ids that are well-formed or not.       *)

PreDistributorIds == {<<"d">>, <<"!">>}

PreAddCalls ==
    {AddCall(r, ty, NoneObj, "False", d) :
        r \in RepoIds, ty \in TypeIds, d \in PreDistributorIds}

NextPre ==
    \E t \in {1} :
        \/ \E c \in PreAddCalls : AddDistributor(t, c)
        \/ CallStep(t)

SpecPre == Init /\ [][NextPre]_vars

-----------------------------------------------------------------------------
(* SpecFlag: one task adds a distributor and updates it with auto_publish   *)
(* left out, a bool, or something that is not a bool.                       *)

AutoPublishInputs == {None, "True", "False", "yes"}

FlagAddCalls == {AddCall("r1", "t1", [b |-> "y"], ap, <<"d">>) : ap \in {"True", "False"}}
FlagUpdateCalls ==
    {UpdateCall("r1", <<"d">>, [a |-> "y"], ap) : ap \in AutoPublishInputs}

NextFlag ==
    \E t \in {1} :
        \/ \E c \in FlagAddCalls : AddDistributor(t, c)
        \/ \E c \in FlagUpdateCalls : UpdateDistributorConfig(t, c)
        \/ CallStep(t)
        \/ UpdateStep(t)

SpecFlag == Init /\ [][NextFlag]_vars

-----------------------------------------------------------------------------
(* SpecFind: one task adds distributors to two repos, sets a scratchpad,    *)
(* removes a distributor and queries by every list of repo ids.             *)

FindRepoIds == {"r1", "r2", "r9"}

FindAddCalls == {AddCall(r, "t1", NoneObj, "False", <<"d">>) : r \in FindRepoIds}
FindRemoveCalls == {RemoveCall("r1", <<"d">>)}
FindScratchpadCalls == {SetScratchpadCall("r1", <<"d">>, "v1")}
FindCalls == {FindCall(l) : l \in SUBSET FindRepoIds}

NextFind ==
    \E t \in {1} :
        \/ \E c \in FindAddCalls : AddDistributor(t, c)
        \/ \E c \in FindRemoveCalls : RemoveDistributor(t, c)
        \/ \E c \in FindScratchpadCalls : SetDistributorScratchpad(t, c)
        \/ \E c \in FindCalls : FindByRepoList(t, c)
        \/ CallStep(t)
        \/ ScratchpadSave(t)

SpecFind == Init /\ [][NextFind]_vars

-----------------------------------------------------------------------------
(* SpecRead: one task adds, replaces and removes distributors of two repos, *)
(* reads them one by one and repo by repo, and asks for bind payloads.      *)

NextRead ==
    \E t \in {1} :
        \/ \E ty \in DistributorTypes, d \in DistributorIds :
              AddDistributor(t, AddCall("r1", ty, [b |-> "y"], "False", d))
        \/ AddDistributor(t, AddCall("r2", "t1", [b |-> "y"], "False", <<"d">>))
        \/ \E d \in DistributorIds : RemoveDistributor(t, RemoveCall("r1", d))
        \/ \E r \in FindRepoIds, d \in DistributorIds : GetDistributor(t, GetCall(r, d))
        \/ \E r \in FindRepoIds : GetDistributors(t, ListCall(r))
        \/ \E r \in RepoIds, bc \in {None, "bc"} :
              CreateBindPayload(t, BindPayloadCall(r, <<"d">>, bc))
        \/ CallStep(t)
        \/ BindPayloadCallback(t)

SpecRead == Init /\ [][NextRead]_vars

-----------------------------------------------------------------------------
(* SpecUuid: one task adds distributors to one repo, with an id of its own  *)
(* or without one, and removes them.                                        *)

NextUuid ==
    \E t \in {1} :
        \/ \E d \in {NoId, <<"d">>} :
              AddDistributor(t, AddCall("r1", "t1", [b |-> "y"], "False", d))
        \/ \E d \in Uuids \cup {<<"d">>} : RemoveDistributor(t, RemoveCall("r1", d))
        \/ CallStep(t)

SpecUuid == Init /\ [][NextUuid]_vars

-----------------------------------------------------------------------------
(* SpecFrame: one task adds one distributor of either type, sets its        *)
(* scratchpad, changes its scheduled publishes and updates it.              *)

NextFrame ==
    \E t \in {1} :
        \/ \E ty \in DistributorTypes :
              AddDistributor(t, AddCall("r1", ty, [b |-> "y"], "False", <<"d">>))
        \/ \E delta \in Deltas, ap \in {None, "True"} :
              UpdateDistributorConfig(t, UpdateCall("r1", <<"d">>, delta, ap))
        \/ \E c \in RaceScratchpadCalls : SetDistributorScratchpad(t, c)
        \/ \E c \in SchedAddScheduleCalls : AddPublishSchedule(t, c)
        \/ \E c \in SchedRemoveScheduleCalls : RemovePublishSchedule(t, c)
        \/ CallStep(t)
        \/ UpdateStep(t)
        \/ ScratchpadSave(t)
        \/ SchedulePush(t)
        \/ SchedulePull(t)

SpecFrame == Init /\ [][NextFrame]_vars

-----------------------------------------------------------------------------
(* SpecIso: task 1 adds distributors d and e of one repo and removes,       *)
(* updates and schedules d, while task 2 sets the scratchpad of e; their    *)
(* steps are interleaved in every way.                                      *)

NextIso ==
    \/ \E d \in DistributorIds :
          AddDistributor(1, AddCall("r1", "t1", [b |-> "y"], "False", d))
    \/ \E c \in RaceRemoveCalls : RemoveDistributor(1, c)
    \/ \E c \in RaceUpdateCalls : UpdateDistributorConfig(1, c)
    \/ \E c \in SchedAddScheduleCalls : AddPublishSchedule(1, c)
    \/ \E c \in SchedRemoveScheduleCalls : RemovePublishSchedule(1, c)
    \/ SetDistributorScratchpad(2, SetScratchpadCall("r1", <<"e">>, "v1"))
    \/ \E t \in Tasks :
        \/ CallStep(t)
        \/ UpdateStep(t)
        \/ ScratchpadSave(t)
        \/ SchedulePush(t)
        \/ SchedulePull(t)

SpecIso == Init /\ [][NextIso]_vars

-----------------------------------------------------------------------------
(* SpecClobber: task 1 adds one distributor, once, and changes its          *)
(* scheduled publishes; task 2 updates it and sets its scratchpad; their    *)
(* steps are interleaved in every way.  A distributor holds at most         *)
(* MaxSchedules scheduled publishes.                                        *)

NextClobber ==
    \/ \E c \in RaceAddCalls : distributors = {} /\ AddDistributor(1, c)
    \/ \E c \in SchedAddScheduleCalls : AddPublishSchedule(1, c)
    \/ \E c \in SchedRemoveScheduleCalls : RemovePublishSchedule(1, c)
    \/ \E c \in RaceUpdateCalls : UpdateDistributorConfig(2, c)
    \/ \E c \in RaceScratchpadCalls : SetDistributorScratchpad(2, c)
    \/ AddValidate(1)
    \/ AddRemoveOld(1)
    \/ AddCallback(1)
    \/ AddSave(1)
    \/ /\ \A x \in distributors : Len(x.scheduled_publishes) < MaxSchedules
       /\ SchedulePush(1)
    \/ SchedulePull(1)
    \/ UpdateStep(2)
    \/ ScratchpadSave(2)

SpecClobber == Init /\ [][NextClobber]_vars

-----------------------------------------------------------------------------
(* The worker registry and the liveness event handlers *)

WorkerNames == {"w1", "w2"}
Timestamps == 1..MaxTime

HeartbeatEvents ==
    {[type |-> "worker-heartbeat", worker_name |-> w, timestamp |-> ts] :
        w \in WorkerNames, ts \in Timestamps}
OfflineEvents ==
    {[type |-> "worker-offline", worker_name |-> w, timestamp |-> ts] :
        w \in WorkerNames, ts \in Timestamps}

\* Worker(name, timestamp): the document of a worker; its _id is its name.
Worker(name, timestamp) == [_id |-> name, last_heartbeat |-> timestamp]

\* list(resources.filter_workers(Criteria(filters={'_id': name}))): whether
\* a worker of that name is stored.
WorkerFound(coll, name) == \E w \in coll : w._id = name

\* Mutant of WorkerSave: the document is inserted next to the stored ones.
WorkerSaveInserts(coll, name, timestamp) == coll \cup {Worker(name, timestamp)}

\* Worker(name, timestamp).save(): the document of that _id is written,
\* in place of the one stored under it.
WorkerSave(coll, name, timestamp) ==
    {w \in coll : w._id # name} \cup {Worker(name, timestamp)}

\* Mutant of FindAndModify: the update is an upsert, and a record is
\* inserted when the query finds none.
FindAndModifyUpserts(coll, name, timestamp) ==
    {w \in coll : w._id # name} \cup {Worker(name, timestamp)}

\* find_and_modify(query={'_id': name}, update={'$set': {'last_heartbeat': timestamp}}):
\* one atomic step that sets the field of the record it finds, and inserts nothing.
FindAndModify(coll, name, timestamp) ==
    {IF w._id = name THEN [w EXCEPT !.last_heartbeat = timestamp] ELSE w : w \in coll}

\* _delete_worker(name, normal_shutdown=True): the record of that name, if
\* there is one, is removed.
DeleteWorker(coll, name) == {w \in coll : w._id # name}

\* handle_worker_heartbeat, first half: the event is parsed and the worker
\* looked up.
HandleWorkerHeartbeat(h, event) ==
    /\ hpc[h] \in {"idle", "done"}
    /\ hevent' = [hevent EXCEPT ![h] = event]
    /\ hfound' = [hfound EXCEPT ![h] = WorkerFound(workers, event.worker_name)]
    /\ hpc' = [hpc EXCEPT ![h] = IF WorkerFound(workers, event.worker_name)
                                 THEN "hb_update" ELSE "hb_save"]
    /\ hlog' = [hlog EXCEPT ![h] = <<>>]
    /\ UNCHANGED <<workers, bvars>>

\* handle_worker_heartbeat, the worker was found: its last_heartbeat is set.
HeartbeatUpdate(h) ==
    /\ hpc[h] = "hb_update"
    /\ workers' = FindAndModify(workers, hevent[h].worker_name, hevent[h].timestamp)
    /\ hlog' = [hlog EXCEPT ![h] = Append(@, [fn |-> "find_and_modify",
                                              worker_name |-> hevent[h].worker_name])]
    /\ hpc' = [hpc EXCEPT ![h] = "done"]
    /\ UNCHANGED <<hevent, hfound, bvars>>

\* handle_worker_heartbeat, the worker was not found: a new record is saved.
HeartbeatSave(h) ==
    /\ hpc[h] = "hb_save"
    /\ workers' = WorkerSave(workers, hevent[h].worker_name, hevent[h].timestamp)
    /\ hlog' = [hlog EXCEPT ![h] = Append(@, [fn |-> "save",
                                              worker_name |-> hevent[h].worker_name])]
    /\ hpc' = [hpc EXCEPT ![h] = "done"]
    /\ UNCHANGED <<hevent, hfound, bvars>>

\* Mutant of HandleWorkerOffline: the worker is deleted as one that timed
\* out, without the normal_shutdown flag.
HandleWorkerOfflineUnflagged(h, event) ==
    /\ hpc[h] \in {"idle", "done"}
    /\ hevent' = [hevent EXCEPT ![h] = event]
    /\ hfound' = [hfound EXCEPT ![h] = FALSE]
    /\ workers' = DeleteWorker(workers, event.worker_name)
    /\ hlog' = [hlog EXCEPT ![h] = <<[fn |-> "_delete_worker",
                                      worker_name |-> event.worker_name,
                                      normal_shutdown |-> FALSE]>>]
    /\ hpc' = [hpc EXCEPT ![h] = "done"]
    /\ UNCHANGED bvars

\* handle_worker_offline: _delete_worker(name, normal_shutdown=True) is
\* called, once.
HandleWorkerOffline(h, event) ==
    /\ hpc[h] \in {"idle", "done"}
    /\ hevent' = [hevent EXCEPT ![h] = event]
    /\ hfound' = [hfound EXCEPT ![h] = FALSE]
    /\ workers' = DeleteWorker(workers, event.worker_name)
    /\ hlog' = [hlog EXCEPT ![h] = <<[fn |-> "_delete_worker",
                                      worker_name |-> event.worker_name,
                                      normal_shutdown |-> TRUE]>>]
    /\ hpc' = [hpc EXCEPT ![h] = "done"]
    /\ UNCHANGED bvars

NextWorker ==
    \E h \in Handlers :
        \/ \E e \in HeartbeatEvents : HandleWorkerHeartbeat(h, e)
        \/ \E e \in OfflineEvents : HandleWorkerOffline(h, e)
        \/ HeartbeatUpdate(h)
        \/ HeartbeatSave(h)

SpecWorker == Init /\ [][NextWorker]_vars

-----------------------------------------------------------------------------
(* Properties *)

\* The documents stored under (repo_id, distributor_id).
Bindings(coll, repo_id, distributor_id) ==
    {d \in coll : DocKey(d) = <<repo_id, distributor_id>>}

\* The positions in the log of task t of the calls named ev.
Events(t, ev) == {i \in DOMAIN log[t] : log[t][i].ev = ev}

\* The identifier grammar: a non-empty string of letters, digits, _ and -.
InGrammar(s) == Len(s) >= 1 /\ \A i \in 1..Len(s) : s[i] \in IdClass

\* config is cfg without the keys cfg maps to None (None when cfg is None).
IsCleaned(config, cfg) ==
    IF cfg = NoneObj
    THEN config = NoneObj
    ELSE /\ config # NoneObj
         /\ DOMAIN config = {k \in DOMAIN cfg : cfg[k] # None}
         /\ \A k \in DOMAIN config : config[k] = cfg[k]

\* C1: when an add under an id that already holds a binding returns, the
\* store holds exactly one binding under that id, of the new type and with
\* the new configuration less its unset keys; the old plugin's
\* distributor_removed and the new plugin's distributor_added were each
\* called exactly once during the add.
SequentialReplace ==
    \A t \in Tasks :
        (/\ pc[t] = "done"
         /\ call[t].op = "add"
         /\ result[t].status = "returned"
         /\ Bindings(pre[t], call[t].repo_id, local[t].distributor_id) # {})
        => LET old == Bindings(pre[t], call[t].repo_id, local[t].distributor_id)
               now == Bindings(distributors, call[t].repo_id, local[t].distributor_id)
           IN /\ Cardinality(now) = 1
              /\ \A x \in now :
                    /\ x.distributor_type_id = call[t].distributor_type_id
                    /\ IsCleaned(x.config, call[t].repo_plugin_config)
              /\ Cardinality(Events(t, "distributor_removed")) = 1
              /\ \A i \in Events(t, "distributor_removed") :
                    log[t][i].distributor_type_id \in {o.distributor_type_id : o \in old}
              /\ Cardinality(Events(t, "distributor_added")) = 1
              /\ \A i \in Events(t, "distributor_added") :
                    log[t][i].distributor_type_id = call[t].distributor_type_id

\* A t1 binding under "d" has been replaced by a t2 binding whose
\* configuration had an unset key.
SequentialReplaceWitness ==
    /\ pc[1] = "done"
    /\ call[1].op = "add"
    /\ result[1].status = "returned"
    /\ call[1].distributor_type_id = "t2"
    /\ call[1].repo_plugin_config = [a |-> None, b |-> "y"]
    /\ \E o \in Bindings(pre[1], "r1", <<"d">>) : o.distributor_type_id = "t1"
    /\ \E x \in distributors : x.id = <<"d">> /\ x.config = [b |-> "y"]

\* C2: two heartbeats for a worker that both handlers found present, with
\* timestamps t1 < t2, leave last_heartbeat = t2 once both are handled,
\* whatever the order.
HeartbeatConvergence ==
    \A h1, h2 \in Handlers :
        (/\ h1 # h2
         /\ hpc[h1] = "done" /\ hpc[h2] = "done"
         /\ hevent[h1].type = "worker-heartbeat" /\ hevent[h2].type = "worker-heartbeat"
         /\ hfound[h1] /\ hfound[h2]
         /\ hevent[h1].worker_name = hevent[h2].worker_name
         /\ hevent[h1].timestamp < hevent[h2].timestamp)
        => \A w \in workers :
              w._id = hevent[h1].worker_name => w.last_heartbeat = hevent[h2].timestamp

\* C3: an add or update whose validate_config returned False or
\* (False, message) raises PulpDataException with that message, leaves the
\* collection as it was and has made no other plugin or schedule call.
RejectedConfigChangesNothing ==
    \A t \in Tasks :
        (pc[t] = "done" /\ call[t].op \in {"add", "update"})
        => \A i \in Events(t, "validate_config") :
              (log[t][i].outcome.kind # "raise" /\ ~log[t][i].outcome.valid)
              => /\ result[t] = Raised(PulpDataException(
                        IF log[t][i].outcome.kind = "tuple"
                        THEN log[t][i].outcome.message ELSE None))
                 /\ distributors = pre[t]
                 /\ Len(log[t]) = 1

\* An add under an id that holds a binding was rejected with (False, "foo").
RejectedConfigWitness ==
    /\ pc[1] = "done"
    /\ call[1].op = "add"
    /\ Bindings(pre[1], "r1", <<"d">>) # {}
    /\ call[1].distributor_id = <<"d">>
    /\ result[1] = Raised(PulpDataException("foo"))

\* C4: an add or update whose validate_config raised fails with
\* PulpDataException and leaves the collection as it was.
ValidateRaiseIsDataException ==
    \A t \in Tasks :
        (/\ pc[t] = "done"
         /\ call[t].op \in {"add", "update"}
         /\ \E i \in Events(t, "validate_config") : log[t][i].outcome.kind = "raise")
        => /\ result[t].status = "raised"
           /\ result[t].exc.type = "PulpDataException"
           /\ distributors = pre[t]

\* C5 as claimed: an add whose distributor_added raised fails with
\* PulpExecutionException and the new document is stored all the same.
OnAddedFailureStillPersists ==
    \A t \in Tasks :
        (/\ pc[t] = "done"
         /\ call[t].op = "add"
         /\ \E i \in Events(t, "distributor_added") : log[t][i].outcome = "raise")
        => /\ result[t] = Raised(PulpExecutionException)
           /\ \E x \in Bindings(distributors, call[t].repo_id, local[t].distributor_id) :
                 /\ x.distributor_type_id = call[t].distributor_type_id
                 /\ IsCleaned(x.config, call[t].repo_plugin_config)

\* C5 as amended: an add whose distributor_added raised fails with
\* PulpExecutionException and stores nothing: no binding is left under the
\* id (one stored there before has been removed) and every other binding is
\* as it was.
OnAddedFailureStoresNothing ==
    \A t \in Tasks :
        (/\ pc[t] = "done"
         /\ call[t].op = "add"
         /\ \E i \in Events(t, "distributor_added") : log[t][i].outcome = "raise")
        => /\ result[t] = Raised(PulpExecutionException)
           /\ Bindings(distributors, call[t].repo_id, local[t].distributor_id) = {}
           /\ distributors =
                pre[t] \ Bindings(pre[t], call[t].repo_id, local[t].distributor_id)

\* An add with an accepted configuration has failed in distributor_added.
OnAddedFailureWitness ==
    /\ pc[1] = "done"
    /\ call[1].op = "add"
    /\ result[1] = Raised(PulpExecutionException)
    /\ \E i \in Events(1, "validate_config") : log[1][i].outcome.kind # "raise"
    /\ \E i \in Events(1, "distributor_added") : log[1][i].outcome = "raise"

\* C6: a remove whose distributor_removed raised fails with
\* PulpExecutionException, and the binding is still stored as it was.
OnRemovedFailureIsExecutionError ==
    \A t \in Tasks :
        (/\ pc[t] = "done"
         /\ call[t].op = "remove"
         /\ \E i \in Events(t, "distributor_removed") : log[t][i].outcome = "raise")
        => /\ result[t].status = "raised"
           /\ result[t].exc.type = "PulpExecutionException"
           /\ Bindings(distributors, call[t].repo_id, call[t].distributor_id) # {}
           /\ Bindings(distributors, call[t].repo_id, call[t].distributor_id)
                = Bindings(pre[t], call[t].repo_id, call[t].distributor_id)

\* C7: an update that returns has stored exactly the stored configuration
\* less the keys the delta unsets, with the keys the delta sets written
\* over it, and validate_config was given that same map.
UpdateDeltaMerge ==
    /\ MergedConfig([a |-> "a", b |-> "b", c |-> "c"], [a |-> "A", b |-> None, d |-> "D"])
         = [a |-> "A", c |-> "c", d |-> "D"]
    /\ \A t \in Tasks :
        (pc[t] = "done" /\ call[t].op = "update" /\ result[t].status = "returned")
        => LET D == call[t].distributor_config
               unset == {k \in DOMAIN D : D[k] = None}
               set == (DOMAIN D) \ unset
           IN /\ Bindings(distributors, call[t].repo_id, call[t].distributor_id) # {}
              /\ \A o \in Bindings(pre[t], call[t].repo_id, call[t].distributor_id) :
                 \A x \in Bindings(distributors, call[t].repo_id, call[t].distributor_id) :
                    /\ DOMAIN x.config = ((DOMAIN o.config) \ unset) \cup set
                    /\ \A k \in DOMAIN x.config :
                          x.config[k] = IF k \in set THEN D[k] ELSE o.config[k]
                    /\ \A i \in DOMAIN log[t] :
                          log[t][i].ev = "validate_config"
                          => log[t][i].call_config.repo_plugin_config = x.config
                    /\ Events(t, "validate_config") # {}

\* An update has overwritten one stored key and unset another.
UpdateDeltaMergeWitness ==
    /\ pc[1] = "done"
    /\ call[1].op = "update"
    /\ result[1].status = "returned"
    /\ call[1].distributor_config = [a |-> "y", b |-> None]
    /\ \E o \in pre[1] : o.config = [a |-> "x", b |-> "x"]
    /\ \E x \in distributors : x.config = [a |-> "y"]

\* C8: no stored configuration maps a key to None, and an add that returned
\* has stored none of the keys its configuration mapped to None.
NoUnsetMarkerPersisted ==
    /\ \A d \in distributors :
          d.config # NoneObj => \A k \in DOMAIN d.config : d.config[k] # None
    /\ \A t \in Tasks :
        (/\ pc[t] = "done" /\ call[t].op = "add" /\ result[t].status = "returned"
         /\ call[t].repo_plugin_config # NoneObj)
        => \A x \in Bindings(distributors, call[t].repo_id, local[t].distributor_id) :
              \A k \in DOMAIN call[t].repo_plugin_config :
                 call[t].repo_plugin_config[k] = None => k \notin DOMAIN x.config

\* An add whose configuration maps a to None has stored a configuration
\* without a.
NoUnsetMarkerWitness ==
    /\ pc[1] = "done"
    /\ call[1].op = "add"
    /\ result[1].status = "returned"
    /\ call[1].repo_plugin_config = [a |-> None, b |-> "x"]
    /\ \E x \in distributors : x.config = [b |-> "x"]

\* C9: for an existing repo and a registered type, an add with a supplied
\* id raises InvalidValue naming distributor_id exactly when the id is not
\* in the grammar, and then it has stored nothing and called no plugin.
IdentifierGrammar ==
    \A t \in Tasks :
        (/\ pc[t] # "idle"
         /\ call[t].op = "add"
         /\ call[t].repo_id \in Repos
         /\ is_valid_distributor(call[t].distributor_type_id)
         /\ call[t].distributor_id # NoId)
        => /\ (result[t] = Raised(InvalidValue(<<"distributor_id">>)))
                <=> ~InGrammar(call[t].distributor_id)
           /\ (result[t] = Raised(InvalidValue(<<"distributor_id">>)))
                => (distributors = pre[t] /\ log[t] = <<>>)

\* C10: remove and update raise MissingResource naming the repo and no
\* distributor when the repo does not exist, and naming both the repo and
\* the distributor when only the distributor does not exist; either way the
\* collection is as it was and no plugin was called.
NotFoundPayloads ==
    \A t \in Tasks :
        (pc[t] = "done" /\ call[t].op \in {"remove", "update"})
        => /\ (call[t].repo_id \notin Repos)
                => /\ result[t].status = "raised"
                   /\ result[t].exc.type = "MissingResource"
                   /\ "distributor" \notin DOMAIN result[t].exc.resources
                   /\ \E f \in DOMAIN result[t].exc.resources :
                         result[t].exc.resources[f] = call[t].repo_id
                   /\ distributors = pre[t]
                   /\ log[t] = <<>>
           /\ (/\ call[t].repo_id \in Repos
               /\ Bindings(pre[t], call[t].repo_id, call[t].distributor_id) = {})
                => /\ result[t].status = "raised"
                   /\ result[t].exc.type = "MissingResource"
                   /\ "distributor" \in DOMAIN result[t].exc.resources
                   /\ result[t].exc.resources.distributor = call[t].distributor_id
                   /\ \E f \in (DOMAIN result[t].exc.resources) \ {"distributor"} :
                         result[t].exc.resources[f] = call[t].repo_id
                   /\ distributors = pre[t]
                   /\ log[t] = <<>>

\* The add of task t has issued its save: it returned the document it
\* built, or the save was refused.
SaveIssued(t) ==
    /\ pc[t] = "done"
    /\ call[t].op = "add"
    /\ \/ result[t].status = "returned"
       \/ result[t] = Raised(DuplicateKeyError)

\* C11: in every reachable state of two tasks running add, update, remove
\* and scratchpad-set calls in any interleaving, no two stored documents
\* share (repo_id, id); and once two adds under the same repo_id and id have
\* both issued their save, exactly one document is stored under that id and
\* it is the one of the add that saved last.
BindingUniqueLastWriterWins ==
    /\ \A d1, d2 \in distributors : DocKey(d1) = DocKey(d2) => d1 = d2
    /\ (/\ SaveIssued(1) /\ SaveIssued(2)
        /\ call[1].repo_id = call[2].repo_id
        /\ local[1].distributor_id = local[2].distributor_id)
       => /\ Cardinality(Bindings(distributors, call[1].repo_id, local[1].distributor_id)) = 1
          /\ lastwriter \in Tasks
          /\ result[lastwriter].status = "returned"
          /\ result[lastwriter].value \in distributors

\* How many times x occurs in list.
Count(list, x) == Cardinality({i \in DOMAIN list : list[i] = x})

\* C12: with calls made one after another, an add_publish_schedule(s) that
\* returned leaves s exactly once in scheduled_publishes (the document is
\* as it was when s was a member already, else s is appended), a
\* remove_publish_schedule(s) that returned leaves no occurrence of s, and
\* leaves the collection as it was when s was not a member.
ScheduleIdempotent ==
    \A t \in Tasks :
        (/\ pc[t] = "done"
         /\ call[t].op \in {"add_schedule", "remove_schedule"}
         /\ result[t].status = "returned")
        => LET s == call[t].schedule_id
               old == Bindings(pre[t], call[t].repo_id, call[t].distributor_id)
               now == Bindings(distributors, call[t].repo_id, call[t].distributor_id)
           IN /\ Cardinality(now) = 1
              /\ Cardinality(old) = 1
              /\ \A o \in old : \A x \in now :
                    IF call[t].op = "add_schedule"
                    THEN /\ Count(x.scheduled_publishes, s) = 1
                         /\ InList(s, o.scheduled_publishes) => distributors = pre[t]
                         /\ ~InList(s, o.scheduled_publishes)
                               => x = [o EXCEPT !.scheduled_publishes = Append(@, s)]
                    ELSE /\ Count(x.scheduled_publishes, s) = 0
                         /\ ~InList(s, o.scheduled_publishes) => distributors = pre[t]
                         /\ \A y \in ScheduleIds \ {s} :
                               Count(x.scheduled_publishes, y) = Count(o.scheduled_publishes, y)

\* s1 was added a second time to a distributor that held s2 and s1.
ScheduleIdempotentWitness ==
    /\ pc[1] = "done"
    /\ result[1].status = "returned"
    /\ call[1].op = "add_schedule"
    /\ call[1].schedule_id = "s1"
    /\ \E o \in pre[1] : o.scheduled_publishes = <<"s2", "s1">>
    /\ \E x \in distributors : x.scheduled_publishes = <<"s2", "s1">>

\* C13: when two add_publish_schedule(s) calls on the same distributor,
\* run by two tasks at the same time, have both returned,
\* scheduled_publishes holds s exactly once.
ScheduleAddAtomic ==
    (/\ pc[1] = "done" /\ pc[2] = "done"
     /\ call[1].op = "add_schedule" /\ call[2].op = "add_schedule"
     /\ result[1].status = "returned" /\ result[2].status = "returned"
     /\ call[1].repo_id = call[2].repo_id
     /\ call[1].distributor_id = call[2].distributor_id
     /\ call[1].schedule_id = call[2].schedule_id)
    => \A x \in Bindings(distributors, call[1].repo_id, call[1].distributor_id) :
          Count(x.scheduled_publishes, call[1].schedule_id) = 1

\* C14: a get_distributor_scratchpad for a (repo, distributor) that holds
\* no binding returns None, and a set_distributor_scratchpad for such a pair
\* returns without an error, has saved nothing and leaves the collection as
\* it was.
ScratchpadMissingBinding ==
    \A t \in Tasks :
        (/\ pc[t] = "done"
         /\ call[t].op \in {"get_scratchpad", "set_scratchpad"}
         /\ Bindings(pre[t], call[t].repo_id, call[t].distributor_id) = {})
        => /\ distributors = pre[t]
           /\ log[t] = <<>>
           /\ IF call[t].op = "get_scratchpad"
              THEN result[t] = Returned(None)
              ELSE result[t] = Returned(NoneObj)

\* A scratchpad was set on a repo that exists and holds no distributor "d",
\* while the collection was empty.
ScratchpadMissingWitness ==
    /\ pc[1] = "done"
    /\ call[1].op = "set_scratchpad"
    /\ call[1].repo_id = "r1"
    /\ pre[1] = {}
    /\ distributors = {}
    /\ result[1] = Returned(NoneObj)

\* The call of task t has returned, and it was made on (or has added) a
\* binding that is stored now.
ReturnedOn(t, op) ==
    /\ pc[t] = "done"
    /\ call[t].op = op
    /\ result[t].status = "returned"
    /\ Bindings(distributors, call[t].repo_id, <<"d">>) # {}

\* The step of task t is a get_distributor_scratchpad on the binding its
\* last call was made on.
GetsAfter(t) ==
    /\ pc[t] = "done"
    /\ pc'[t] = "done"
    /\ call'[t].op = "get_scratchpad"
    /\ call'[t].repo_id = call[t].repo_id
    /\ call'[t].distributor_id = <<"d">>

\* A set_distributor_scratchpad on a stored binding changes its scratchpad
\* and nothing else.
ScratchpadSetFrame ==
    \A t \in Tasks :
        (/\ pc[t] = "done"
         /\ call[t].op = "set_scratchpad"
         /\ Bindings(pre[t], call[t].repo_id, call[t].distributor_id) # {})
        => /\ result[t] = Returned(NoneObj)
           /\ \A o \in pre[t] :
                 DocKey(o) = <<call[t].repo_id, call[t].distributor_id>>
                 => distributors = (pre[t] \ {o})
                        \cup {[o EXCEPT !.scratchpad = call[t].contents]}

\* C15: a get_distributor_scratchpad right after the add that created the
\* binding returns None; right after a set_distributor_scratchpad(v) on the
\* binding it returns v, whatever was set before; and the set changes no
\* field of the binding but its scratchpad.
ScratchpadRoundTrip ==
    /\ []ScratchpadSetFrame
    /\ [][\A t \in Tasks :
            /\ (ReturnedOn(t, "add") /\ GetsAfter(t)) => result'[t] = Returned(None)
            /\ (ReturnedOn(t, "set_scratchpad") /\ GetsAfter(t))
                  => result'[t] = Returned(call[t].contents)]_vars

\* v2 was set on a binding whose scratchpad held v1, and its type, config,
\* auto_publish flag and scheduled publishes are as they were.
ScratchpadRoundTripWitness ==
    /\ pc[1] = "done"
    /\ call[1].op = "set_scratchpad"
    /\ call[1].contents = "v2"
    /\ \E o \in pre[1] : o.scratchpad = "v1" /\ o.scheduled_publishes = <<"s1">>
    /\ \E x \in distributors :
          /\ x.scratchpad = "v2"
          /\ x.scheduled_publishes = <<"s1">>
          /\ x.config = [b |-> "y"]
          /\ x.auto_publish = "True"
          /\ x.distributor_type_id = "t1"

\* The records stored for the worker called name.
Records(coll, name) == {w \in coll : w._id = name}

\* The records stored for the other workers.
OtherRecords(coll, name) == {w \in coll : w._id # name}

\* C16: handling a worker-offline event for W calls _delete_worker exactly
\* once, for W and with normal_shutdown = True, and leaves no record of W
\* and every other record as it was; when W has no record the registry is
\* left as it was, and the handler ends all the same.
ShutdownDeletes ==
    [][\A h \in Handlers : \A e \in OfflineEvents :
          HandleWorkerOffline(h, e)
          => /\ hlog'[h] = <<[fn |-> "_delete_worker", worker_name |-> e.worker_name,
                               normal_shutdown |-> TRUE]>>
             /\ Records(workers', e.worker_name) = {}
             /\ OtherRecords(workers', e.worker_name) = OtherRecords(workers, e.worker_name)
             /\ Records(workers, e.worker_name) = {} => workers' = workers
             /\ hpc'[h] = "done"]_vars

\* A worker-offline event for w1 has been handled while w2 has a record, and
\* another one while w1 had no record.
ShutdownDeletesWitness ==
    /\ hpc[1] = "done" /\ hpc[2] = "done"
    /\ hevent[1].type = "worker-offline" /\ hevent[1].worker_name = "w1"
    /\ hevent[2].type = "worker-offline" /\ hevent[2].worker_name = "w1"
    /\ Records(workers, "w1") = {}
    /\ Records(workers, "w2") # {}

\* No two stored records have the same identity.
OneRecordPerWorker == \A w1, w2 \in workers : w1._id = w2._id => w1 = w2

\* C17: the save of a heartbeat {W, t} whose lookup found no record leaves
\* exactly the record (W, t) for W; the update of one whose lookup found a
\* record sets last_heartbeat of the record stored for W to t; both leave
\* the records of every other identity as they were; and in every reachable
\* state of heartbeat and shutdown handlers interleaved in any way, no two
\* records have the same identity.
HeartbeatCreateOrUpdate ==
    /\ []OneRecordPerWorker
    /\ [][\A h \in Handlers :
            LET W == hevent[h].worker_name
                t == hevent[h].timestamp
            IN /\ HeartbeatSave(h)
                    => /\ ~hfound[h]
                       /\ Records(workers', W) = {[_id |-> W, last_heartbeat |-> t]}
                       /\ OtherRecords(workers', W) = OtherRecords(workers, W)
               /\ HeartbeatUpdate(h)
                    => /\ hfound[h]
                       /\ Records(workers, W) # {}
                             => Records(workers', W) = {[_id |-> W, last_heartbeat |-> t]}
                       /\ Records(workers, W) = {} => workers' = workers
                       /\ OtherRecords(workers', W) = OtherRecords(workers, W)]_vars

\* Both handlers found no record of w1 and have both saved one, for
\* timestamps 1 and 2, while w2 has a record.
HeartbeatCreateOrUpdateWitness ==
    /\ hpc[1] = "done" /\ hpc[2] = "done"
    /\ hevent[1] = [type |-> "worker-heartbeat", worker_name |-> "w1", timestamp |-> 1]
    /\ hevent[2] = [type |-> "worker-heartbeat", worker_name |-> "w1", timestamp |-> 2]
    /\ ~hfound[1] /\ ~hfound[2]
    /\ Cardinality(Records(workers, "w1")) = 1
    /\ Records(workers, "w2") # {}

\* C18: an add to a repo that does not exist raises MissingResource naming
\* the repo, whatever the type and the id; an add to an existing repo of a
\* type that is not registered raises InvalidValue naming
\* distributor_type_id, whatever the id; either way no plugin or
\* collaborator was called and the collection is as it was.
AddPreconditionPrecedence ==
    \A t \in Tasks :
        (pc[t] # "idle" /\ call[t].op = "add")
        => /\ (call[t].repo_id \notin Repos)
                => /\ result[t] = Raised(MissingResource([repository |-> call[t].repo_id]))
                   /\ log[t] = <<>>
                   /\ distributors = pre[t]
           /\ (call[t].repo_id \in Repos /\ ~is_valid_distributor(call[t].distributor_type_id))
                => /\ result[t] = Raised(InvalidValue(<<"distributor_type_id">>))
                   /\ log[t] = <<>>
                   /\ distributors = pre[t]

\* An add to a missing repo, of an unregistered type and under a malformed
\* id, was made while a binding was stored, and raised MissingResource.
AddPreconditionWitness ==
    /\ pc[1] = "done"
    /\ call[1] = AddCall("r9", "t9", NoneObj, "False", <<"!">>)
    /\ result[1] = Raised(MissingResource([repository |-> "r9"]))
    /\ distributors # {}

\* validate_config accepted the configuration of the call of task t.
Accepted(t) ==
    \E i \in Events(t, "validate_config") :
        log[t][i].outcome.kind # "raise" /\ log[t][i].outcome.valid

\* C19: an update of a stored binding with an auto_publish that is not a
\* bool raises and leaves the collection as it was, and when its
\* configuration was accepted it raises InvalidValue naming auto_publish;
\* an update that leaves auto_publish out never raises that error and, when
\* it returns, the stored flag is as it was; one that passes a bool never
\* raises it either and, when it returns, the stored flag is that bool.
AutoPublishMustBeBool ==
    \A t \in Tasks :
        (/\ pc[t] = "done"
         /\ call[t].op = "update"
         /\ Bindings(pre[t], call[t].repo_id, call[t].distributor_id) # {})
        => LET ap == call[t].auto_publish
               old == Bindings(pre[t], call[t].repo_id, call[t].distributor_id)
               now == Bindings(distributors, call[t].repo_id, call[t].distributor_id)
           IN IF ap \notin {None, "True", "False"}
              THEN /\ result[t].status = "raised"
                   /\ distributors = pre[t]
                   /\ Accepted(t) => result[t] = Raised(InvalidValue(<<"auto_publish">>))
              ELSE /\ result[t] # Raised(InvalidValue(<<"auto_publish">>))
                   /\ Accepted(t) => result[t].status = "returned"
                   /\ result[t].status = "returned"
                         => /\ now # {}
                            /\ \A o \in old : \A x \in now :
                                  x.auto_publish = IF ap = None THEN o.auto_publish ELSE ap

\* An update with an accepted delta and auto_publish "yes" has raised
\* InvalidValue on a binding whose flag is True.
AutoPublishWitness ==
    /\ pc[1] = "done"
    /\ call[1].op = "update"
    /\ call[1].auto_publish = "yes"
    /\ Accepted(1)
    /\ result[1] = Raised(InvalidValue(<<"auto_publish">>))
    /\ \E x \in distributors : x.auto_publish = "True" /\ x.config = [b |-> "y"]

\* r is the stored document d as a query with the scratchpad projected out
\* returns it.
Serialized(r, d) ==
    /\ DOMAIN r = (DOMAIN d) \ {"scratchpad"}
    /\ \A k \in DOMAIN r : r[k] = d[k]

\* C20: find_by_repo_list returns, for every list of repo ids, one document
\* for each stored binding whose repo_id is in the list (the binding less
\* its scratchpad) and nothing else, so nothing for a repo that does not
\* exist; it never raises, calls no plugin and leaves the collection as it
\* was.
FindByRepoListExact ==
    \A t \in Tasks :
        (pc[t] = "done" /\ call[t].op = "find_by_repo_list")
        => /\ result[t].status = "returned"
           /\ distributors = pre[t]
           /\ log[t] = <<>>
           /\ \A d \in distributors :
                 d.repo_id \in call[t].repo_id_list
                 => Cardinality({r \in result[t].value : Serialized(r, d)}) = 1
           /\ \A r \in result[t].value :
                 /\ r.repo_id \in call[t].repo_id_list
                 /\ r.repo_id \in Repos
                 /\ \E d \in distributors : Serialized(r, d)

\* A query for r1 and the missing r9 has returned the one binding of r1
\* while r2 holds a binding too.
FindByRepoListWitness ==
    /\ pc[1] = "done"
    /\ call[1] = FindCall({"r1", "r9"})
    /\ Cardinality(distributors) = 2
    /\ Cardinality(result[1].value) = 1
    /\ \E d \in distributors : d.repo_id = "r1" /\ d.scratchpad = "v1"

\* C21: get_distributor returns the stored document of (repo_id, id) and
\* raises MissingResource when there is none; get_distributors raises
\* MissingResource for a repo that does not exist and else returns exactly
\* the documents of that repo; neither changes the collection nor calls a
\* plugin.
ReadsArePure ==
    \A t \in Tasks :
        /\ (pc[t] = "done" /\ call[t].op = "get")
            => /\ distributors = pre[t]
               /\ log[t] = <<>>
               /\ IF Bindings(pre[t], call[t].repo_id, call[t].distributor_id) = {}
                  THEN /\ result[t].status = "raised"
                       /\ result[t].exc.type = "MissingResource"
                  ELSE /\ result[t].status = "returned"
                       /\ result[t].value \in
                            Bindings(pre[t], call[t].repo_id, call[t].distributor_id)
        /\ (pc[t] = "done" /\ call[t].op = "list")
            => /\ distributors = pre[t]
               /\ log[t] = <<>>
               /\ IF call[t].repo_id \notin Repos
                  THEN /\ result[t].status = "raised"
                       /\ result[t].exc.type = "MissingResource"
                  ELSE result[t] =
                          Returned({d \in pre[t] : d.repo_id = call[t].repo_id})

\* get_distributors returned the two distributors of r1 while r2 holds one
\* as well.
ReadsArePureWitness ==
    /\ pc[1] = "done"
    /\ call[1].op = "list"
    /\ call[1].repo_id = "r1"
    /\ result[1].status = "returned"
    /\ Cardinality(result[1].value) = 2
    /\ \E d \in distributors : d.repo_id = "r2"

\* C22: create_bind_payload raises MissingResource, without calling the
\* plugin, when no distributor is stored under (repo_id, id); for a stored
\* distributor it calls create_consumer_payload once, with the binding
\* configuration it was given, and returns the payload, or raises
\* PulpExecutionException when the plugin raised; the collection is as it
\* was in every case.
BindPayloadOutcome ==
    \A t \in Tasks :
        (call[t].op = "create_bind_payload" /\ pc[t] \in {"bind_payload", "done"})
        => /\ distributors = pre[t]
           /\ pc[t] = "done" =>
                IF Bindings(pre[t], call[t].repo_id, call[t].distributor_id) = {}
                THEN /\ result[t].status = "raised"
                     /\ result[t].exc.type = "MissingResource"
                     /\ log[t] = <<>>
                ELSE /\ Len(log[t]) = 1
                     /\ log[t][1].ev = "create_consumer_payload"
                     /\ log[t][1].binding_config = call[t].binding_config
                     /\ log[t][1].outcome = "return"
                            => result[t] = Returned(log[t][1].payload)
                     /\ log[t][1].outcome = "raise"
                            => result[t] = Raised(PulpExecutionException)

\* create_consumer_payload raised for a stored distributor, and the call
\* ended in a PulpExecutionException with the distributor still stored.
BindPayloadWitness ==
    /\ pc[1] = "done"
    /\ call[1].op = "create_bind_payload"
    /\ Events(1, "create_consumer_payload") # {}
    /\ log[1][1].outcome = "raise"
    /\ result[1] = Raised(PulpExecutionException)
    /\ Bindings(distributors, "r1", <<"d">>) # {}

\* C23: an add_distributor without a distributor_id that returns has
\* generated an id no distributor of the repo had; the collection is the
\* one before the call plus the new document, and neither the schedule
\* deletion nor distributor_removed was called.
IdlessAddNeverReplaces ==
    \A t \in Tasks :
        (/\ pc[t] = "done"
         /\ call[t].op = "add"
         /\ call[t].distributor_id = NoId
         /\ result[t].status = "returned")
        => /\ result[t].value.id \notin
                  {o.id : o \in {x \in pre[t] : x.repo_id = call[t].repo_id}}
           /\ result[t].value \notin pre[t]
           /\ distributors = pre[t] \cup {result[t].value}
           /\ Cardinality({x \in distributors : x.repo_id = call[t].repo_id})
                = Cardinality({x \in pre[t] : x.repo_id = call[t].repo_id}) + 1
           /\ Events(t, "distributor_removed") = {}
           /\ Events(t, "delete_by_distributor_id") = {}

\* A second add without an id has returned: the repo holds two
\* distributors with generated ids next to the one the caller named.
IdlessAddWitness ==
    /\ pc[1] = "done"
    /\ call[1].op = "add"
    /\ call[1].distributor_id = NoId
    /\ result[1].status = "returned"
    /\ \E o \in pre[1] : o.id \in Uuids
    /\ \E o \in pre[1] : o.id = <<"d">>
    /\ Cardinality({x \in distributors : x.id \in Uuids}) = 2

\* C24: add_publish_schedule, remove_publish_schedule and
\* list_publish_schedules raise MissingResource naming the repo and the
\* distributor when no distributor is stored under (repo_id, id), and leave
\* the collection as it was; list_publish_schedules on a stored distributor
\* returns its scheduled publishes as they are stored.
ScheduleMissingBinding ==
    \A t \in Tasks :
        (pc[t] = "done"
         /\ call[t].op \in {"add_schedule", "remove_schedule", "list_schedules"})
        => /\ Bindings(pre[t], call[t].repo_id, call[t].distributor_id) = {}
                => /\ result[t] = Raised(MissingResource(
                          [repo |-> call[t].repo_id,
                           distributor |-> call[t].distributor_id]))
                   /\ distributors = pre[t]
                   /\ log[t] = <<>>
           /\ (/\ call[t].op = "list_schedules"
               /\ Bindings(pre[t], call[t].repo_id, call[t].distributor_id) # {})
                => /\ distributors = pre[t]
                   /\ \E o \in Bindings(pre[t], call[t].repo_id, call[t].distributor_id) :
                         result[t] = Returned(o.scheduled_publishes)

\* list_publish_schedules was called with no distributor stored: it raised
\* MissingResource and nothing is stored.
ScheduleMissingWitness ==
    /\ pc[1] = "done"
    /\ call[1].op = "list_schedules"
    /\ result[1].status = "raised"
    /\ result[1].exc.type = "MissingResource"
    /\ distributors = {}

\* C25: an add_distributor on an id that is in use, whose distributor_added
\* raises, has deleted the old document before the callback was called and
\* ends in an exception with no document stored under the id: neither the
\* old one nor the new one.
ReplaceLeavesNeither ==
    \A t \in Tasks :
        (/\ pc[t] = "done"
         /\ call[t].op = "add"
         /\ Bindings(pre[t], call[t].repo_id, local[t].distributor_id) # {}
         /\ \E i \in Events(t, "distributor_added") : log[t][i].outcome = "raise")
        => /\ result[t].status = "raised"
           /\ Bindings(distributors, call[t].repo_id, local[t].distributor_id) = {}
           /\ Events(t, "save") = {}
           /\ \A o \in Bindings(pre[t], call[t].repo_id, local[t].distributor_id) :
                 /\ o \notin distributors
                 /\ \E i \in Events(t, "remove") :
                       /\ log[t][i].oid = o._id
                       /\ \A j \in Events(t, "distributor_added") : i < j

\* The window: a t1 distributor was stored under d, an add of a t2
\* distributor under d failed in distributor_added, and nothing is stored
\* under d any more.
ReplaceLeavesNeitherWitness ==
    /\ pc[1] = "done"
    /\ call[1].op = "add"
    /\ call[1].distributor_type_id = "t2"
    /\ \E o \in Bindings(pre[1], "r1", <<"d">>) : o.distributor_type_id = "t1"
    /\ local[1].distributor_id = <<"d">>
    /\ result[1] = Raised(PulpExecutionException)
    /\ Bindings(distributors, "r1", <<"d">>) = {}

\* C26: an add_distributor on an id that is in use, whose old distributor's
\* distributor_removed raises, ends in that exception; distributor_added is
\* not called, no document is deleted or saved, and the old document is
\* stored as it was, with its type and its configuration.
FailedRemovalAbortsReplace ==
    \A t \in Tasks :
        (/\ pc[t] = "done"
         /\ call[t].op = "add"
         /\ \E i \in Events(t, "distributor_removed") : log[t][i].outcome = "raise")
        => /\ result[t] = Raised(PluginError("distributor_removed", "boom"))
           /\ Events(t, "distributor_added") = {}
           /\ Events(t, "save") = {}
           /\ Events(t, "remove") = {}
           /\ distributors = pre[t]
           /\ \E o \in Bindings(distributors, call[t].repo_id, local[t].distributor_id) :
                 /\ o = local[t].repo_distributor
                 /\ \A i \in Events(t, "distributor_removed") :
                       /\ log[t][i].distributor_type_id = o.distributor_type_id
                       /\ log[t][i].call_config.repo_plugin_config = o.config

\* An add of a t2 distributor under d failed in the distributor_removed of
\* the t1 distributor stored there, which is still stored.
FailedRemovalWitness ==
    /\ pc[1] = "done"
    /\ call[1].op = "add"
    /\ call[1].distributor_type_id = "t2"
    /\ \E i \in Events(1, "distributor_removed") : log[1][i].outcome = "raise"
    /\ \E o \in Bindings(distributors, "r1", <<"d">>) :
          o.distributor_type_id = "t1" /\ o.config = [b |-> "y"]

\* What the call of task t has done so far, in order.
EvSeq(t) == [i \in DOMAIN log[t] |-> log[t][i].ev]

\* The order of the steps in the log of a running or finished call.
StepsInOrder ==
    \A t \in Tasks :
        /\ \A j \in Events(t, "distributor_removed") :
              /\ \E i \in Events(t, "delete_by_distributor_id") : i < j
              /\ call[t].op = "add" => \E i \in Events(t, "validate_config") : i < j
        /\ \A k \in Events(t, "remove") :
              \E j \in Events(t, "distributor_removed") :
                 j < k /\ log[t][j].outcome = "return"
        /\ \A k \in Events(t, "distributor_added") :
              /\ \E i \in Events(t, "validate_config") : i < k
              /\ \A j \in Events(t, "distributor_removed") :
                    j < k /\ log[t][j].outcome = "return"
        /\ \A k \in Events(t, "save") :
              \E j \in Events(t, "distributor_added") :
                 j < k /\ log[t][j].outcome = "return"
        /\ (pc[t] = "done" /\ call[t].op = "remove" /\ result[t].status = "returned")
              => /\ EvSeq(t) = <<"delete_by_distributor_id", "distributor_removed", "remove">>
                 /\ Bindings(distributors, call[t].repo_id, call[t].distributor_id) = {}
        /\ (/\ pc[t] = "done" /\ call[t].op = "add" /\ result[t].status = "returned"
            /\ Bindings(pre[t], call[t].repo_id, local[t].distributor_id) # {})
              => EvSeq(t) = <<"validate_config", "delete_by_distributor_id",
                              "distributor_removed", "remove", "distributor_added", "save">>

\* C27: in a remove_distributor the schedules are deleted before
\* distributor_removed is called, and the document is deleted only after it
\* returned; in an add_distributor that replaces, validate_config comes
\* before the old distributor's distributor_removed, that before
\* distributor_added, and that before the save; after a remove_distributor
\* that returned, a get_distributor or remove_distributor of the same
\* distributor raises MissingResource.
OrderedSteps ==
    /\ []StepsInOrder
    /\ [][\A t \in Tasks :
            (/\ pc[t] = "done" /\ call[t].op = "remove" /\ result[t].status = "returned"
             /\ pc'[t] = "done" /\ call'[t].op \in {"get", "remove"}
             /\ call'[t].repo_id = call[t].repo_id
             /\ call'[t].distributor_id = call[t].distributor_id)
            => /\ result'[t].status = "raised"
               /\ result'[t].exc.type = "MissingResource"]_vars

\* An add that replaces has returned after its six steps.
OrderedStepsWitness ==
    /\ pc[1] = "done"
    /\ call[1].op = "add"
    /\ result[1].status = "returned"
    /\ EvSeq(1) = <<"validate_config", "delete_by_distributor_id",
                    "distributor_removed", "remove", "distributor_added", "save">>

\* An update_distributor_config that returned has replaced the document it
\* found by one that differs from it in the config and, when auto_publish
\* was passed, in auto_publish; no plugin callback but validate_config ran.
UpdateFrame ==
    \A t \in Tasks :
        (pc[t] = "done" /\ call[t].op = "update" /\ result[t].status = "returned")
        => /\ Events(t, "distributor_added") = {}
           /\ Events(t, "distributor_removed") = {}
           /\ \E o \in Bindings(pre[t], call[t].repo_id, call[t].distributor_id) :
                 /\ distributors = (pre[t] \ {o}) \cup {result[t].value}
                 /\ result[t].value =
                      [o EXCEPT !.config = result[t].value.config,
                                !.auto_publish = IF call[t].auto_publish = None
                                                 THEN o.auto_publish
                                                 ELSE call[t].auto_publish]

\* The step is one of an update, a scratchpad-set or a schedule call.
NoLifecycleStep ==
    \E t \in Tasks :
        /\ <<pc[t], call[t]>> # <<pc'[t], call'[t]>>
        /\ call'[t].op \in {"update", "set_scratchpad", "add_schedule", "remove_schedule"}

\* C28: a successful update_distributor_config changes the config of the
\* distributor and, when passed, its auto_publish flag, and nothing else of
\* it: repo_id, id, distributor_type_id, scratchpad and scheduled publishes
\* stay; it calls neither distributor_added nor distributor_removed; and no
\* step of an update, a scratchpad-set or a schedule call adds or deletes a
\* document or changes the distributor_type_id of one.
UpdateIsSameState ==
    /\ []UpdateFrame
    /\ [][NoLifecycleStep
            => /\ {DocKey(o) : o \in distributors} = {DocKey(x) : x \in distributors'}
               /\ \A o \in distributors, x \in distributors' :
                     DocKey(o) = DocKey(x)
                     => o.distributor_type_id = x.distributor_type_id]_vars

\* An update with auto_publish passed has returned on a t2 distributor that
\* had a scratchpad and a scheduled publish, and it still has them.
UpdateIsSameStateWitness ==
    /\ pc[1] = "done"
    /\ call[1].op = "update"
    /\ call[1].auto_publish = "True"
    /\ result[1].status = "returned"
    /\ \E o \in pre[1] :
          /\ o.scratchpad = "v1"
          /\ o.scheduled_publishes = <<"s1">>
          /\ o.auto_publish = "False"
          /\ o.config # result[1].value.config
    /\ \E x \in distributors :
          /\ x.distributor_type_id = "t2"
          /\ x.scratchpad = "v1"
          /\ x.scheduled_publishes = <<"s1">>
          /\ x.auto_publish = "True"

\* C29: whatever step a call on (repo_id, id) takes, and whatever the call
\* ends in, the documents stored under every other (repo_id, id) pair are
\* after the step what they were before it.
BindingsIsolated ==
    [][\A t \in Tasks :
          (/\ <<pc[t], call[t]>> # <<pc'[t], call'[t]>>
           /\ call'[t].op \in {"add", "remove", "update", "set_scratchpad",
                               "add_schedule", "remove_schedule"})
          => {o \in distributors :
                 DocKey(o) # <<call'[t].repo_id, call'[t].distributor_id>>}
             = {x \in distributors' :
                 DocKey(x) # <<call'[t].repo_id, call'[t].distributor_id>>}]_vars

\* Distributor d was removed while the scratchpad of distributor e was
\* set: e is stored with the new scratchpad.
BindingsIsolatedWitness ==
    /\ pc[1] = "done"
    /\ call[1].op = "remove"
    /\ result[1].status = "returned"
    /\ Bindings(distributors, "r1", <<"d">>) = {}
    /\ \E o \in pre[1] : o.id = <<"e">> /\ o.scratchpad = None
    /\ \E x \in distributors : x.id = <<"e">> /\ x.scratchpad = "v1"

\* The last call of task 1 was a schedule call and the last call of task 2
\* an update or a scratchpad-set, both on the stored distributor, and both
\* have returned.
BothCompleted(op) ==
    /\ pc[1] = "done"
    /\ call[1].op = op
    /\ result[1].status = "returned"
    /\ pc[2] = "done"
    /\ call[2].op \in {"update", "set_scratchpad"}
    /\ result[2].status = "returned"
    /\ Bindings(pre[2], call[2].repo_id, call[2].distributor_id) # {}

\* C30: when add_publish_schedule (or remove_publish_schedule) and
\* update_distributor_config or set_distributor_scratchpad on the same
\* distributor have both returned, however their steps were interleaved,
\* the schedule id is (or is no longer) among the scheduled publishes and
\* the new config or scratchpad is stored too.
ScheduleChangeSurvives ==
    \A x \in Bindings(distributors, "r1", <<"d">>) :
        /\ BothCompleted("add_schedule")
              => InList(call[1].schedule_id, x.scheduled_publishes)
        /\ BothCompleted("remove_schedule")
              => ~InList(call[1].schedule_id, x.scheduled_publishes)
        /\ (BothCompleted("add_schedule") \/ BothCompleted("remove_schedule"))
              => /\ call[2].op = "update" => x.config = result[2].value.config
                 /\ call[2].op = "set_scratchpad" => x.scratchpad = call[2].contents

\* C31: when remove_distributor has deleted the document that an
\* update_distributor_config or set_distributor_scratchpad had read, and
\* both calls have returned, whichever of the delete and the save came
\* last, no distributor is stored under (repo_id, id).
RemoveNotUndone ==
    (/\ pc[1] = "done"
     /\ call[1].op = "remove"
     /\ result[1].status = "returned"
     /\ pc[2] = "done"
     /\ call[2].op \in {"update", "set_scratchpad"}
     /\ result[2].status = "returned"
     /\ local[2].repo_distributor # NoneObj
     /\ local[2].repo_distributor._id = local[1].repo_distributor._id)
    => Bindings(distributors, call[1].repo_id, call[1].distributor_id) = {}

\* C32: when a heartbeat handler found a record of W, and a worker-offline
\* event for W has been handled and the record is gone when the handler
\* makes its update, the find_and_modify matches nothing: the registry is
\* left as it was, without a record of W, and the handler ends.
HeartbeatNoResurrect ==
    [][\A h, g \in Handlers :
          (/\ h # g
           /\ HeartbeatUpdate(h)
           /\ hfound[h]
           /\ hpc[g] = "done"
           /\ hevent[g].type = "worker-offline"
           /\ hevent[g].worker_name = hevent[h].worker_name
           /\ Records(workers, hevent[h].worker_name) = {})
          => /\ workers' = workers
             /\ Records(workers', hevent[h].worker_name) = {}
             /\ hpc'[h] = "done"]_vars

\* A heartbeat handler that had found w1 has called find_and_modify, a
\* worker-offline event for w1 has been handled, and w1 has no record
\* while w2 has one.
HeartbeatNoResurrectWitness ==
    /\ hpc[1] = "done"
    /\ hevent[1].type = "worker-heartbeat"
    /\ hevent[1].worker_name = "w1"
    /\ hfound[1]
    /\ hlog[1] = <<[fn |-> "find_and_modify", worker_name |-> "w1"]>>
    /\ hpc[2] = "done"
    /\ hevent[2].type = "worker-offline"
    /\ hevent[2].worker_name = "w1"
    /\ Records(workers, "w1") = {}
    /\ Records(workers, "w2") # {}

\* C33: a remove_distributor whose distributor_removed raised has deleted
\* the schedules of (repo_id, id) before the callback and has done nothing
\* after it: the call ends in the exception, the document is stored as it
\* was, and the schedule deletion stands.
FailedRemoveDeletedSchedules ==
    \A t \in Tasks :
        (/\ pc[t] = "done"
         /\ call[t].op = "remove"
         /\ \E i \in Events(t, "distributor_removed") : log[t][i].outcome = "raise")
        => /\ result[t].status = "raised"
           /\ EvSeq(t) = <<"delete_by_distributor_id", "distributor_removed">>
           /\ log[t][1].repo_id = call[t].repo_id
           /\ log[t][1].distributor_id = call[t].distributor_id
           /\ distributors = pre[t]
           /\ Bindings(distributors, call[t].repo_id, call[t].distributor_id) # {}

\* A remove of d has failed in distributor_removed: its schedules were
\* deleted and its document is stored.
FailedRemoveWitness ==
    /\ pc[1] = "done"
    /\ call[1].op = "remove"
    /\ result[1] = Raised(PluginError("distributor_removed", "boom"))
    /\ Events(1, "delete_by_distributor_id") = {1}
    /\ Bindings(distributors, "r1", <<"d">>) # {}

\* An add_distributor that returned on an id that was in use has left one
\* document under the id, with no scratchpad and no scheduled publishes.
FreshAfterReplace ==
    \A t \in Tasks :
        (/\ pc[t] = "done"
         /\ call[t].op = "add"
         /\ result[t].status = "returned"
         /\ Bindings(pre[t], call[t].repo_id, local[t].distributor_id) # {})
        => /\ Bindings(distributors, call[t].repo_id, local[t].distributor_id)
                = {result[t].value}
           /\ result[t].value \notin pre[t]
           /\ result[t].value.scratchpad = None
           /\ result[t].value.scheduled_publishes = <<>>

\* C34: after an add_distributor that replaced a distributor, whatever
\* scratchpad and scheduled publishes the old one held, the stored document
\* has no scratchpad and no scheduled publishes, and a
\* get_distributor_scratchpad that follows returns None.
ReplaceIsFresh ==
    /\ []FreshAfterReplace
    /\ [][\A t \in Tasks :
            (/\ ReturnedOn(t, "add")
             /\ Bindings(pre[t], call[t].repo_id, <<"d">>) # {}
             /\ GetsAfter(t))
            => result'[t] = Returned(None)]_vars

\* An add has replaced a distributor that held a scratchpad and two
\* scheduled publishes; the stored one holds neither.
ReplaceIsFreshWitness ==
    /\ pc[1] = "done"
    /\ call[1].op = "add"
    /\ result[1].status = "returned"
    /\ \E o \in pre[1] : o.scratchpad = "v2" /\ Len(o.scheduled_publishes) = 2
    /\ \E x \in distributors : x.scratchpad = None /\ x.scheduled_publishes = <<>>

\* An update that returned has stored the map it merged; that map holds no
\* key the delta unsets and holds the delta's value for every key the delta
\* sets; and with an empty delta and no auto_publish the stored document,
\* and the whole collection, are what they were before the call.
UpdatePersistsMerged ==
    \A t \in Tasks :
        (pc[t] = "done" /\ call[t].op = "update" /\ result[t].status = "returned")
        => LET D == call[t].distributor_config IN
           /\ Bindings(distributors, call[t].repo_id, call[t].distributor_id)
                = {result[t].value}
           /\ result[t].value.config = local[t].config
           /\ \A k \in DOMAIN D :
                 IF D[k] = None
                 THEN k \notin DOMAIN result[t].value.config
                 ELSE /\ k \in DOMAIN result[t].value.config
                      /\ result[t].value.config[k] = D[k]
           /\ (DOMAIN D = {} /\ call[t].auto_publish = None)
              => /\ distributors = pre[t]
                 /\ \A o \in Bindings(pre[t], call[t].repo_id, call[t].distributor_id) :
                       result[t].value.config = o.config

\* The step of task t makes, right after an update that returned, the same
\* update again, and the call gets past its lookups.
UpdatesAgain(t) ==
    /\ pc[t] = "done"
    /\ call[t].op = "update"
    /\ result[t].status = "returned"
    /\ call'[t] = call[t]
    /\ pc'[t] = "upd_validate"

\* C35: update_distributor_config is idempotent and has an identity: the
\* same update made a second time in a row merges to the configuration the
\* first one stored, which is the configuration it then stores; and an
\* update with an empty delta and no auto_publish leaves the stored
\* configuration as it was.
UpdateIdempotent ==
    /\ []UpdatePersistsMerged
    /\ [][\A t \in Tasks :
            UpdatesAgain(t)
            => /\ local'[t].config = result[t].value.config
               /\ local'[t].repo_distributor = result[t].value]_vars

\* An update that sets one key and unsets another has returned on a
\* distributor whose configuration was already the result of that update,
\* and the stored configuration is the same as before.
UpdateIdempotentWitness ==
    /\ pc[1] = "done"
    /\ call[1].op = "update"
    /\ result[1].status = "returned"
    /\ call[1].distributor_config = [a |-> "y", b |-> None]
    /\ \E o \in pre[1] : o.config = [a |-> "y"]
    /\ \E x \in distributors : x.config = [a |-> "y"]
    /\ distributors = pre[1]

====
